---- MODULE Spec2Model ----
(***************************************************************************)
(* The filesystem manager of Pengputer (src/src/Pengputer/FileSystem.ts):  *)
(* the mount table, the directory trees of the mounted drives and the      *)
(* floppy records persisted in localStorage under the key "floppies";      *)
(* and the line editor readLine (src/unnamed/part_000), at the end.        *)
(*                                                                         *)
(* Representation.                                                         *)
(*   - A JS string that holds JSON text is the record [json |-> v], v the  *)
(*     value the text denotes; text that is no JSON is [garbage |-> ...].  *)
(*     JSON.stringify builds the first, JSON.parse reads it back and       *)
(*     throws on the second.                                               *)
(*   - A floppy name is the sequence of its characters, so that the        *)
(*     regular expression of spawnFloppy is computed, not looked up.       *)
(*   - A thrown Error is the non-empty string err of an operation's        *)
(*     result; err = "" is a normal return.                                *)
(***************************************************************************)
EXTENDS Naturals, Sequences, FiniteSets, TLC

VARIABLES
  drives,        \* FileSystem.drives: label -> drive, on the labels mounted
  localStorage,  \* the item stored under LSKEY_FLOPPIES (NullItem: none)
  alive,         \* a FileSystem object exists (its constructor returned)
  last,          \* the last call made: its name and its outcome
  line           \* the closure of the readLine call in progress (NoLine: none)

vars == <<drives, localStorage, alive, last, line>>

----------------------------------------------------------------------------
(* Bounds of the model *)

\* Longest piece sequence of a path handed to createDirectory/removeDirectory.
MaxPieces == 2

\* The labels the calls are made with (a subset of DriveLabelValues).
Labels == {"C", "D", "E"}

\* The directory names paths are built from, outermost first.
PieceChain == <<"docs", "sub", "deep", "deeper">>

\* Floppy names handed to the lifecycle calls: "work" and "A1_b", which the
\* pattern of spawnFloppy accepts, the empty string and "a b".
NameWork == <<"w", "o", "r", "k">>
NameA1b == <<"A", "1", "_", "b">>
NameEmpty == <<>>
NameBad == <<"a", " ", "b">>
GoodNames == {NameWork, NameA1b}
NameInputs == GoodNames \cup {NameEmpty, NameBad}

----------------------------------------------------------------------------
(* Values *)

Null == "null"

DriveLabelValues ==
  {"A", "B", "C", "D", "E", "F", "G", "H", "I", "J", "K", "L", "M",
   "N", "O", "P", "Q", "R", "S", "T", "U", "V", "W", "X", "Y", "Z"}

isDriveLabel(label) == label \in DriveLabelValues

KindTransient == "Transient"
KindFloppy == "Floppy"

TypeDirectory == "dir"
TypeTextFile == "txt"
TypeExecutable == "exe"
TypeBinary == "bin"

\* new FileInfoDirectory(name, entries)
FileInfoDirectory(name, entries) ==
  [type |-> TypeDirectory, name |-> name, entries |-> entries]

\* new TransientFileSystemDrive()
TransientFileSystemDrive ==
  [type |-> KindTransient, rootEntry |-> FileInfoDirectory("/", <<>>)]

\* new FloppyFileSystemDrive(rootEntry)
FloppyFileSystemDrive(rootEntry) ==
  [type |-> KindFloppy, rootEntry |-> rootEntry]

\* TextFile and BinaryFile of ./fileTypes, as the serializer uses them: a
\* TextFile gives back with getText() the text put in with replace(), a
\* BinaryFile keeps the string it was constructed with in `data`.
TextFile(text) == [text |-> text]
BinaryFile(data) == [data |-> data]

\* The "no such entry" result of getFileInfo and of _.find.
NoInfo == [type |-> "none"]

\* No readLine call is in progress.
NoLine == [none |-> TRUE]

NoDrives == [l \in {} |-> TransientFileSystemDrive]

Put(d, label, drive) ==
  [l \in DOMAIN d \cup {label} |-> IF l = label THEN drive ELSE d[l]]

Drop(d, label) == [l \in DOMAIN d \ {label} |-> d[l]]

----------------------------------------------------------------------------
(* JSON text and localStorage *)

NullItem == [absent |-> TRUE]
Garbage == [garbage |-> "not json"]

JsonStringify(v) == [json |-> v]
JsonParses(s) == "json" \in DOMAIN s
JsonParse(s) == s.json

\* localStorage.getItem(LSKEY_FLOPPIES) ?? "[]", parsed
LoadFloppies(item) == IF item = NullItem THEN <<>> ELSE JsonParse(item)

\* _.find(array, pred): the index of the first match, 0 when there is none
RECURSIVE FirstNamed(_, _, _)
FirstNamed(s, name, i) ==
  IF i > Len(s) THEN 0
  ELSE IF s[i].name = name THEN i
  ELSE FirstNamed(s, name, i + 1)

RECURSIVE FirstOnDrive(_, _, _)
FirstOnDrive(s, label, i) ==
  IF i > Len(s) THEN 0
  ELSE IF s[i].drive = label THEN i
  ELSE FirstOnDrive(s, label, i + 1)

RECURSIVE FirstDirNamed(_, _, _)
FirstDirNamed(s, name, i) ==
  IF i > Len(s) THEN 0
  ELSE IF s[i].type = TypeDirectory /\ s[i].name = name THEN i
  ELSE FirstDirNamed(s, name, i + 1)

----------------------------------------------------------------------------
(* FloppyFileSystemDrive: the serializer *)

\* #serializeFile throws on any kind but dir, txt and bin, at any depth.
RECURSIVE CanSerialize(_)
CanSerialize(file) ==
  IF file.type = TypeDirectory
  THEN \A i \in 1..Len(file.entries) : CanSerialize(file.entries[i])
  ELSE file.type \in {TypeTextFile, TypeBinary}

\* #serializeFile that does not descend: a directory is written empty.
serializeFileShallow(file) ==
  IF file.type = TypeDirectory
  THEN [type |-> TypeDirectory, name |-> file.name, entries |-> <<>>]
  ELSE IF file.type = TypeTextFile
  THEN [type |-> TypeTextFile, name |-> file.name,
        textData |-> file.data.text]
  ELSE [type |-> TypeBinary, name |-> file.name,
        binaryData |-> file.data.data]

RECURSIVE serializeFile(_)
serializeFile(file) ==
  IF file.type = TypeDirectory
  THEN [type |-> TypeDirectory, name |-> file.name,
        entries |-> [i \in 1..Len(file.entries) |->
                       serializeFile(file.entries[i])]]
  ELSE IF file.type = TypeTextFile
  THEN [type |-> TypeTextFile, name |-> file.name,
        textData |-> file.data.text]
  ELSE [type |-> TypeBinary, name |-> file.name,
        binaryData |-> file.data.data]

\* drive.serialize()
serialize(drive) == [root |-> serializeFile(drive.rootEntry)]

\* #deserializeFile throws on any tag but dir, txt and bin, at any depth.
RECURSIVE CanDeserialize(_)
CanDeserialize(file) ==
  IF file.type = TypeDirectory
  THEN \A i \in 1..Len(file.entries) : CanDeserialize(file.entries[i])
  ELSE file.type \in {TypeTextFile, TypeBinary}

\* #deserializeFile that builds a directory with its entries in the
\* opposite order.
RECURSIVE deserializeFileReversed(_)
deserializeFileReversed(file) ==
  IF file.type = TypeDirectory
  THEN FileInfoDirectory(file.name,
         [i \in 1..Len(file.entries) |->
            deserializeFileReversed(file.entries[Len(file.entries) + 1 - i])])
  ELSE IF file.type = TypeTextFile
  THEN [type |-> TypeTextFile, name |-> file.name,
        data |-> TextFile(file.textData)]
  ELSE [type |-> TypeBinary, name |-> file.name,
        data |-> BinaryFile(file.binaryData)]

RECURSIVE deserializeFile(_)
deserializeFile(file) ==
  IF file.type = TypeDirectory
  THEN FileInfoDirectory(file.name,
         [i \in 1..Len(file.entries) |-> deserializeFile(file.entries[i])])
  ELSE IF file.type = TypeTextFile
  THEN [type |-> TypeTextFile, name |-> file.name,
        data |-> TextFile(file.textData)]
  ELSE [type |-> TypeBinary, name |-> file.name,
        data |-> BinaryFile(file.binaryData)]

\* FloppyFileSystemDrive.fromSerialized
fromSerialized(floppyContents) ==
  FloppyFileSystemDrive(deserializeFile(floppyContents.root))

\* The data spawnFloppy gives a new record.
EmptyFloppyData ==
  JsonStringify([root |-> [type |-> TypeDirectory, name |-> "/",
                           entries |-> <<>>]])

----------------------------------------------------------------------------
(* FilePath *)

\* The loop of the FilePath constructor over the pieces it is given.
RECURSIVE NormalizePieces(_, _, _)
NormalizePieces(pieces, isAbsolute, acc) ==
  IF pieces = <<>> THEN acc
  ELSE LET piece == Head(pieces)
           rest == Tail(pieces)
       IN IF piece = ".."
          THEN IF isAbsolute
               THEN NormalizePieces(rest, isAbsolute,
                      IF Len(acc) # 0 THEN SubSeq(acc, 1, Len(acc) - 1) ELSE acc)
               ELSE NormalizePieces(rest, isAbsolute, Append(acc, ".."))
          ELSE IF piece = "."
          THEN NormalizePieces(rest, isAbsolute, acc)
          ELSE NormalizePieces(rest, isAbsolute, Append(acc, piece))

\* A constructor that keeps every ".." as it does on a relative path.
FilePathKeepsDotDot(drive, pieces, isAbsolute) ==
  [drive |-> drive,
   pieces |-> NormalizePieces(pieces, FALSE, <<>>),
   isAbsolute |-> (drive # Null) \/ isAbsolute]

\* new FilePath(drive, pieces, isAbsolute)
FilePath(drive, pieces, isAbsolute) ==
  LET abs == (drive # Null) \/ isAbsolute
  IN [drive |-> drive,
      pieces |-> NormalizePieces(pieces, abs, <<>>),
      isAbsolute |-> abs]

\* The null that tryParse returns for a prefix that is no drive label.
NoPath == [none |-> TRUE]

\* FilePath.tryParse(`${drive}:/${pieces.join("/")}`), as createDirectory
\* calls it on the pieces of a FilePath (none empty, none holding "/"):
\* a null drive prints as "null", which is no drive label; any other drive
\* is taken back from before the colon and the pieces from the split.
tryParseDrivePath(drive, pieces) ==
  IF ~isDriveLabel(drive) THEN NoPath
  ELSE FilePath(drive, pieces, TRUE)

\* The characters of a JS string are the one-character strings
\* SubSeq(s, i, i); path.indexOf(c) counted from 1, 0 for "not found".
RECURSIVE IndexOf(_, _, _)
IndexOf(s, c, i) ==
  IF i > Len(s) THEN 0
  ELSE IF SubSeq(s, i, i) = c THEN i
  ELSE IndexOf(s, c, i + 1)

LowerCaseLetters == "abcdefghijklmnopqrstuvwxyz"
UpperCaseLetters == "ABCDEFGHIJKLMNOPQRSTUVWXYZ"

\* s.toUpperCase(), on the letters a to z
RECURSIVE toUpperCase(_)
toUpperCase(s) ==
  IF Len(s) = 0 THEN ""
  ELSE LET c == SubSeq(s, 1, 1)
           i == IndexOf(LowerCaseLetters, c, 1)
       IN (IF i = 0 THEN c ELSE SubSeq(UpperCaseLetters, i, i))
          \o toUpperCase(SubSeq(s, 2, Len(s)))

\* path.split("/").filter((s) => s.length > 0): cur is the segment being
\* read from position i on.
RECURSIVE SplitPieces(_, _, _)
SplitPieces(s, i, cur) ==
  IF i > Len(s) THEN (IF Len(cur) > 0 THEN <<cur>> ELSE <<>>)
  ELSE IF SubSeq(s, i, i) = "/"
  THEN (IF Len(cur) > 0 THEN <<cur>> ELSE <<>>) \o SplitPieces(s, i + 1, "")
  ELSE SplitPieces(s, i + 1, cur \o SubSeq(s, i, i))

\* pieces.join(PATH_SEPARATOR)
RECURSIVE JoinPieces(_)
JoinPieces(pieces) ==
  IF Len(pieces) = 0 THEN ""
  ELSE IF Len(pieces) = 1 THEN pieces[1]
  ELSE pieces[1] \o "/" \o JoinPieces(Tail(pieces))

\* FilePath.tryParse(path, defaultDrive)
tryParse(path, defaultDrive) ==
  IF Len(path) = 0 THEN FilePath(Null, <<>>, FALSE)
  ELSE IF path = "/" THEN FilePath(Null, <<>>, TRUE)
  ELSE
    LET colonIndex == IndexOf(path, ":", 1)
        driveName == toUpperCase(SubSeq(path, 1, colonIndex - 1))
        rest == IF colonIndex > 0
                THEN SubSeq(path, colonIndex + 1, Len(path)) ELSE path
        isAbsolute == Len(rest) = 0 \/ SubSeq(rest, 1, 1) = "/"
        drive == IF colonIndex > 0 THEN driveName
                 ELSE IF isAbsolute THEN defaultDrive ELSE Null
        tail == IF isAbsolute THEN SubSeq(rest, 2, Len(rest)) ELSE rest
    IN IF colonIndex > 0 /\ ~isDriveLabel(driveName) THEN NoPath
       ELSE FilePath(drive, SplitPieces(tail, 1, ""), isAbsolute)

\* toString that prints a path with a drive as it prints an absolute path
\* without one.
toStringDropsDrive(path) ==
  LET pathPart == JoinPieces(path.pieces)
  IN IF path.isAbsolute THEN "/" \o pathPart
     ELSE "./" \o pathPart

\* path.toString()
toString(path) ==
  LET pathPart == JoinPieces(path.pieces)
  IN IF path.drive # Null THEN path.drive \o ":/" \o pathPart
     ELSE IF path.isAbsolute THEN "/" \o pathPart
     ELSE "./" \o pathPart

\* path.combine(other)
combine(path, other) ==
  IF other.isAbsolute THEN path
  ELSE FilePath(path.drive, path.pieces \o other.pieces, path.isAbsolute)

\* path.parentDirectory()
parentDirectory(path) ==
  IF Len(path.pieces) = 0 THEN path
  ELSE FilePath(path.drive, SubSeq(path.pieces, 1, Len(path.pieces) - 1),
                path.isAbsolute)

equals(path, other) ==
  path.drive = other.drive /\ path.pieces = other.pieces

----------------------------------------------------------------------------
(* FileInfoDirectory and the walk of getFileInfo *)

\* The walk of getFileInfo from a directory over a non-empty piece sequence:
\* the index taken at each level, 0 where the lookup finds nothing. Every
\* piece but the last must name a directory; the last names any entry.
RECURSIVE Locate(_, _)
Locate(cur, pieces) ==
  IF Len(pieces) = 1
  THEN <<FirstNamed(cur.entries, pieces[1], 1)>>
  ELSE LET i == FirstDirNamed(cur.entries, pieces[1], 1)
       IN IF i = 0 THEN <<0>>
          ELSE <<i>> \o Locate(cur.entries[i], Tail(pieces))

Located(idx) == \A k \in 1..Len(idx) : idx[k] # 0

RECURSIVE EntryAt(_, _)
EntryAt(dir, idx) ==
  IF idx = <<>> THEN dir ELSE EntryAt(dir.entries[idx[1]], Tail(idx))

\* The tree with the entry at an index path replaced: what a mutation of the
\* object found by the walk does to the tree that holds it.
RECURSIVE ReplaceAt(_, _, _)
ReplaceAt(dir, idx, new) ==
  IF idx = <<>> THEN new
  ELSE [dir EXCEPT !.entries[idx[1]] = ReplaceAt(@, Tail(idx), new)]

\* getFileInfo whose walk stops one piece short: it returns the directory
\* that holds the entry.
getFileInfoStopsShort(d, path) ==
  IF path = NoPath THEN NoInfo
  ELSE IF path.drive = Null THEN NoInfo
  ELSE IF path.drive \notin DOMAIN d THEN NoInfo
  ELSE LET rootEntry == d[path.drive].rootEntry
       IN IF Len(path.pieces) = 0 THEN rootEntry
          ELSE LET idx == Locate(rootEntry, path.pieces)
               IN IF Located(idx)
                  THEN EntryAt(rootEntry, SubSeq(idx, 1, Len(idx) - 1))
                  ELSE NoInfo

getFileInfo(d, path) ==
  IF path = NoPath THEN NoInfo
  ELSE IF path.drive = Null THEN NoInfo
  ELSE IF path.drive \notin DOMAIN d THEN NoInfo
  ELSE LET rootEntry == d[path.drive].rootEntry
       IN IF Len(path.pieces) = 0 THEN rootEntry
          ELSE LET idx == Locate(rootEntry, path.pieces)
               IN IF Located(idx) THEN EntryAt(rootEntry, idx) ELSE NoInfo

\* The mount table after the entry getFileInfo(d, path) found was mutated
\* in place into `new`.
WithEntry(d, path, new) ==
  LET rootEntry == d[path.drive].rootEntry
      idx == IF Len(path.pieces) = 0 THEN <<>>
             ELSE Locate(rootEntry, path.pieces)
  IN [d EXCEPT ![path.drive].rootEntry = ReplaceAt(rootEntry, idx, new)]

\* addItem without the search for an entry of that name.
addItemNoSearch(dir, info) ==
  [err |-> "", dir |-> [dir EXCEPT !.entries = Append(@, info)]]

\* dir.addItem(info)
addItem(dir, info) ==
  IF FirstNamed(dir.entries, info.name, 1) # 0
  THEN [err |-> "already exists", dir |-> dir]
  ELSE [err |-> "", dir |-> [dir EXCEPT !.entries = Append(@, info)]]

mkdir(dir, name) ==
  IF FirstNamed(dir.entries, name, 1) # 0
  THEN [err |-> "already exists", dir |-> dir]
  ELSE [err |-> "",
        dir |-> [dir EXCEPT !.entries =
                   Append(@, FileInfoDirectory(name, <<>>))]]

\* rmdir that removes a directory whether or not it is empty.
rmdirAlwaysForces(dir, name, force) ==
  LET i == FirstNamed(dir.entries, name, 1)
  IN IF i = 0 THEN [err |-> "does not exist", dir |-> dir]
     ELSE IF dir.entries[i].type # TypeDirectory
     THEN [err |-> "is not a directory", dir |-> dir]
     ELSE [err |-> "",
           dir |-> [dir EXCEPT !.entries =
                      SelectSeq(@, LAMBDA e : e.name # name)]]

rmdir(dir, name, force) ==
  LET i == FirstNamed(dir.entries, name, 1)
  IN IF i = 0 THEN [err |-> "does not exist", dir |-> dir]
     ELSE IF dir.entries[i].type # TypeDirectory
     THEN [err |-> "is not a directory", dir |-> dir]
     ELSE IF Len(dir.entries[i].entries) # 0 /\ ~force
     THEN [err |-> "is not empty", dir |-> dir]
     ELSE [err |-> "",
           dir |-> [dir EXCEPT !.entries =
                      SelectSeq(@, LAMBDA e : e.name # name)]]

----------------------------------------------------------------------------
(* FileSystem: each method as the result it returns or throws, the mount   *)
(* table it leaves and the item it leaves in localStorage.                 *)

\* mount without the test of the label: the new drive replaces the old.
mountOverwrites(d, label, drive) ==
  [ok |-> TRUE, drives |-> Put(d, label, drive)]

mount(d, label, drive) ==
  IF label \in DOMAIN d THEN [ok |-> FALSE, drives |-> d]
  ELSE [ok |-> TRUE, drives |-> Put(d, label, drive)]

unmount(d, label) == Drop(d, label)

\* #insertFloppyInternal that takes the answer of mount for granted: the
\* floppy replaces the drive that holds the label.
insertFloppyInternalIgnoresMount(d, label, floppy) ==
  IF ~JsonParses(floppy.data)
  THEN [err |-> "SyntaxError", drives |-> d, floppy |-> floppy]
  ELSE LET floppyContents == JsonParse(floppy.data)
       IN IF ~CanDeserialize(floppyContents.root)
          THEN [err |-> "Unrecognized or unsupported serialized file type",
                drives |-> d, floppy |-> floppy]
          ELSE [err |-> "",
                drives |-> Put(d, label, fromSerialized(floppyContents)),
                floppy |-> [floppy EXCEPT !.drive = label]]

insertFloppyInternal(d, label, floppy) ==
  IF ~JsonParses(floppy.data)
  THEN [err |-> "SyntaxError", drives |-> d, floppy |-> floppy]
  ELSE LET floppyContents == JsonParse(floppy.data)
       IN IF ~CanDeserialize(floppyContents.root)
          THEN [err |-> "Unrecognized or unsupported serialized file type",
                drives |-> d, floppy |-> floppy]
          ELSE LET m == mount(d, label, fromSerialized(floppyContents))
               IN IF ~m.ok
                  THEN [err |-> "Failed to insert floppy; it might be corrupt",
                        drives |-> d, floppy |-> floppy]
                  ELSE [err |-> "", drives |-> m.drives,
                        floppy |-> [floppy EXCEPT !.drive = label]]

\* The loop of the constructor from record i on: an exception of
\* #insertFloppyInternal is caught and thrown again.
RECURSIVE constructorLoop(_, _, _)
constructorLoop(d, floppyData, i) ==
  IF i > Len(floppyData)
  THEN [err |-> "", drives |-> d, floppyData |-> floppyData]
  ELSE IF floppyData[i].drive = Null
  THEN constructorLoop(d, floppyData, i + 1)
  ELSE LET r == insertFloppyInternal(d, floppyData[i].drive, floppyData[i])
       IN IF r.err # ""
          THEN [err |-> r.err, drives |-> d, floppyData |-> floppyData]
          ELSE constructorLoop(r.drives,
                 [floppyData EXCEPT ![i] = r.floppy], i + 1)

\* new FileSystem() over the stored item
constructor(item) ==
  LET d0 == mount(NoDrives, "C", TransientFileSystemDrive).drives
      r == constructorLoop(d0, LoadFloppies(item), 1)
  IN IF r.err # ""
     THEN [err |-> r.err, drives |-> NoDrives, item |-> item]
     ELSE [err |-> "", drives |-> r.drives,
           item |-> JsonStringify(r.floppyData)]

\* The loop of commit from record i on. this.drives[floppy.drive] is
\* undefined for an unmounted label, and reading its type throws.
RECURSIVE commitLoop(_, _, _)
commitLoop(d, floppyData, i) ==
  IF i > Len(floppyData) THEN [err |-> "", floppyData |-> floppyData]
  ELSE LET floppy == floppyData[i]
       IN IF floppy.drive = Null THEN commitLoop(d, floppyData, i + 1)
          ELSE IF floppy.drive \notin DOMAIN d
          THEN [err |-> "TypeError", floppyData |-> floppyData]
          ELSE IF d[floppy.drive].type # KindFloppy
          THEN commitLoop(d, [floppyData EXCEPT ![i].drive = Null], i + 1)
          ELSE IF ~CanSerialize(d[floppy.drive].rootEntry)
          THEN [err |-> "Unrecognized or unsupported file info type",
                floppyData |-> floppyData]
          ELSE commitLoop(d,
                 [floppyData EXCEPT ![i].data =
                    JsonStringify(serialize(d[floppy.drive]))], i + 1)

commit(d, item) ==
  LET r == commitLoop(d, LoadFloppies(item), 1)
  IN IF r.err # "" THEN [err |-> r.err, drives |-> d, item |-> item]
     ELSE [err |-> "", drives |-> d, item |-> JsonStringify(r.floppyData)]

\* The class [a-zA-Z0-9_] of the pattern of spawnFloppy.
NameChars ==
  {"a", "b", "c", "d", "e", "f", "g", "h", "i", "j", "k", "l", "m",
   "n", "o", "p", "q", "r", "s", "t", "u", "v", "w", "x", "y", "z",
   "A", "B", "C", "D", "E", "F", "G", "H", "I", "J", "K", "L", "M",
   "N", "O", "P", "Q", "R", "S", "T", "U", "V", "W", "X", "Y", "Z",
   "0", "1", "2", "3", "4", "5", "6", "7", "8", "9", "_"}

\* name.match(/^[a-zA-Z0-9_]+$/)
MatchesNamePattern(name) ==
  Len(name) > 0 /\ \A i \in 1..Len(name) : name[i] \in NameChars

\* spawnFloppy without the search for a record of that name.
spawnFloppyNoSearch(d, item, name) ==
  IF ~MatchesNamePattern(name)
  THEN [err |-> "Invalid floppy name", drives |-> d, item |-> item]
  ELSE [err |-> "", drives |-> d,
        item |-> JsonStringify(Append(LoadFloppies(item),
                   [name |-> name, drive |-> Null,
                    data |-> EmptyFloppyData]))]

spawnFloppy(d, item, name) ==
  IF ~MatchesNamePattern(name)
  THEN [err |-> "Invalid floppy name", drives |-> d, item |-> item]
  ELSE LET floppyData == LoadFloppies(item)
       IN IF FirstNamed(floppyData, name, 1) # 0
          THEN [err |-> "Floppy already exists", drives |-> d, item |-> item]
          ELSE [err |-> "", drives |-> d,
                item |-> JsonStringify(Append(floppyData,
                           [name |-> name, drive |-> Null,
                            data |-> EmptyFloppyData]))]

\* burnFloppy that removes the record at the head of the array once it has
\* found one of that name.
burnFloppyRemovesHead(d, item, name) ==
  LET floppyData == LoadFloppies(item)
      i == FirstNamed(floppyData, name, 1)
  IN IF i = 0
     THEN [err |-> "No floppy with that name", drives |-> d, item |-> item]
     ELSE [err |-> "",
           drives |-> IF floppyData[i].drive # Null
                      THEN unmount(d, floppyData[i].drive) ELSE d,
           item |-> JsonStringify(Tail(floppyData))]

\* burnFloppy that leaves the drive of the record mounted.
burnFloppyKeepsDrive(d, item, name) ==
  LET floppyData == LoadFloppies(item)
      i == FirstNamed(floppyData, name, 1)
  IN IF i = 0
     THEN [err |-> "No floppy with that name", drives |-> d, item |-> item]
     ELSE [err |-> "", drives |-> d,
           item |-> JsonStringify(
                      SelectSeq(floppyData, LAMBDA f : f.name # name))]

burnFloppy(d, item, name) ==
  LET floppyData == LoadFloppies(item)
      i == FirstNamed(floppyData, name, 1)
  IN IF i = 0
     THEN [err |-> "No floppy with that name", drives |-> d, item |-> item]
     ELSE [err |-> "",
           drives |-> IF floppyData[i].drive # Null
                      THEN unmount(d, floppyData[i].drive) ELSE d,
           item |-> JsonStringify(
                      SelectSeq(floppyData, LAMBDA f : f.name # name))]

\* insertFloppy that marks the record and writes the array before it
\* mounts, so that a failing mount leaves the record marked.
insertFloppyMarksFirst(d, item, label, floppyName) ==
  LET floppyData == LoadFloppies(item)
      i == FirstNamed(floppyData, floppyName, 1)
  IN IF i = 0
     THEN [err |-> "No floppy with that name", drives |-> d, item |-> item]
     ELSE LET r == insertFloppyInternal(d, label, floppyData[i])
              marked == JsonStringify([floppyData EXCEPT ![i].drive = label])
          IN IF r.err # "" THEN [err |-> r.err, drives |-> d, item |-> marked]
             ELSE [err |-> "", drives |-> r.drives, item |-> marked]

\* insertFloppy that stores the trees of the mounted floppies, as commit
\* does, when it saves the array.
insertFloppyStoresTrees(d, item, label, floppyName) ==
  LET floppyData == LoadFloppies(item)
      i == FirstNamed(floppyData, floppyName, 1)
  IN IF i = 0
     THEN [err |-> "No floppy with that name", drives |-> d, item |-> item]
     ELSE LET r == insertFloppyInternal(d, label, floppyData[i])
          IN IF r.err # "" THEN [err |-> r.err, drives |-> d, item |-> item]
             ELSE [err |-> "", drives |-> r.drives,
                   item |-> JsonStringify(
                              commitLoop(r.drives,
                                [floppyData EXCEPT ![i] = r.floppy],
                                1).floppyData)]

insertFloppy(d, item, label, floppyName) ==
  LET floppyData == LoadFloppies(item)
      i == FirstNamed(floppyData, floppyName, 1)
  IN IF i = 0
     THEN [err |-> "No floppy with that name", drives |-> d, item |-> item]
     ELSE LET r == insertFloppyInternal(d, label, floppyData[i])
          IN IF r.err # "" THEN [err |-> r.err, drives |-> d, item |-> item]
             ELSE [err |-> "", drives |-> r.drives,
                   item |-> JsonStringify(
                              [floppyData EXCEPT ![i] = r.floppy])]

\* ejectFloppy that unmounts before it looks for the record.
ejectFloppyUnmountsFirst(d, item, label) ==
  IF label \notin DOMAIN d
  THEN [err |-> "", drives |-> d, item |-> item]
  ELSE LET floppyData == LoadFloppies(item)
           i == FirstOnDrive(floppyData, label, 1)
       IN IF i = 0
          THEN [err |-> "No floppy mounted to that drive",
                drives |-> unmount(d, label), item |-> item]
          ELSE [err |-> "", drives |-> unmount(d, label),
                item |-> JsonStringify(
                           [floppyData EXCEPT ![i].drive = Null])]

\* ejectFloppy that serializes the tree into the record as it ejects.
ejectFloppySaves(d, item, label) ==
  IF label \notin DOMAIN d
  THEN [err |-> "", drives |-> d, item |-> item]
  ELSE LET floppyData == LoadFloppies(item)
           i == FirstOnDrive(floppyData, label, 1)
       IN IF i = 0
          THEN [err |-> "No floppy mounted to that drive",
                drives |-> d, item |-> item]
          ELSE [err |-> "", drives |-> unmount(d, label),
                item |-> JsonStringify(
                           [floppyData EXCEPT
                              ![i].drive = Null,
                              ![i].data = JsonStringify(serialize(d[label]))])]

ejectFloppy(d, item, label) ==
  IF label \notin DOMAIN d
  THEN [err |-> "", drives |-> d, item |-> item]
  ELSE LET floppyData == LoadFloppies(item)
           i == FirstOnDrive(floppyData, label, 1)
       IN IF i = 0
          THEN [err |-> "No floppy mounted to that drive",
                drives |-> d, item |-> item]
          ELSE [err |-> "", drives |-> unmount(d, label),
                item |-> JsonStringify(
                           [floppyData EXCEPT ![i].drive = Null])]

\* trySerializeFloppy without the try: the exception of #serializeFile
\* reaches the caller.
trySerializeFloppyNoCatch(d, label) ==
  IF label \notin DOMAIN d THEN [err |-> "", returned |-> NullItem]
  ELSE IF d[label].type # KindFloppy THEN [err |-> "", returned |-> NullItem]
  ELSE IF ~CanSerialize(d[label].rootEntry)
  THEN [err |-> "Unrecognized or unsupported file info type",
        returned |-> NullItem]
  ELSE [err |-> "", returned |-> JsonStringify(serialize(d[label]))]

\* trySerializeFloppy: what it returns (NullItem for null, else the JSON
\* text); the exception of #serializeFile is caught inside.
trySerializeFloppy(d, label) ==
  IF label \notin DOMAIN d THEN [err |-> "", returned |-> NullItem]
  ELSE IF d[label].type # KindFloppy THEN [err |-> "", returned |-> NullItem]
  ELSE IF ~CanSerialize(d[label].rootEntry)
  THEN [err |-> "", returned |-> NullItem]
  ELSE [err |-> "", returned |-> JsonStringify(serialize(d[label]))]

\* The loop of createDirectory that, on a prefix that is no directory, makes
\* a directory of that name next to the entry before it throws.
RECURSIVE createDirectoryLoopMakesThenThrows(_, _, _)
createDirectoryLoopMakesThenThrows(d, path, pathIndex) ==
  IF pathIndex > Len(path.pieces) THEN [err |-> "", drives |-> d]
  ELSE
    LET nextDirPath ==
          tryParseDrivePath(path.drive, SubSeq(path.pieces, 1, pathIndex))
        nextDirEntry == getFileInfo(d, nextDirPath)
    IN IF nextDirEntry = NoInfo
       THEN IF nextDirPath = NoPath
            THEN [err |-> "TypeError", drives |-> d]
            ELSE LET prevDirPath == parentDirectory(nextDirPath)
                     prevDirEntry == getFileInfo(d, prevDirPath)
                 IN IF prevDirEntry # NoInfo
                       /\ prevDirEntry.type = TypeDirectory
                    THEN LET m == mkdir(prevDirEntry, path.pieces[pathIndex])
                         IN IF m.err # ""
                            THEN [err |-> m.err, drives |-> d]
                            ELSE createDirectoryLoopMakesThenThrows(
                                   WithEntry(d, prevDirPath, m.dir),
                                   path, pathIndex + 1)
                    ELSE createDirectoryLoopMakesThenThrows(
                           d, path, pathIndex + 1)
       ELSE IF nextDirEntry.type # TypeDirectory
       THEN LET prevDirPath == parentDirectory(nextDirPath)
                prevDirEntry == getFileInfo(d, prevDirPath)
            IN [err |-> "is not a directory",
                drives |-> WithEntry(d, prevDirPath,
                  [prevDirEntry EXCEPT !.entries =
                     Append(@, FileInfoDirectory(path.pieces[pathIndex],
                                                 <<>>))])]
       ELSE createDirectoryLoopMakesThenThrows(d, path, pathIndex + 1)

\* The loop of createDirectory from piece pathIndex on (counted from 1).
\* What it created before a throw stays created.
RECURSIVE createDirectoryLoop(_, _, _)
createDirectoryLoop(d, path, pathIndex) ==
  IF pathIndex > Len(path.pieces) THEN [err |-> "", drives |-> d]
  ELSE
    LET nextDirPath ==
          tryParseDrivePath(path.drive, SubSeq(path.pieces, 1, pathIndex))
        nextDirEntry == getFileInfo(d, nextDirPath)
    IN IF nextDirEntry = NoInfo
       THEN IF nextDirPath = NoPath
            THEN [err |-> "TypeError", drives |-> d]
            ELSE LET prevDirPath == parentDirectory(nextDirPath)
                     prevDirEntry == getFileInfo(d, prevDirPath)
                 IN IF prevDirEntry # NoInfo
                       /\ prevDirEntry.type = TypeDirectory
                    THEN LET m == mkdir(prevDirEntry, path.pieces[pathIndex])
                         IN IF m.err # ""
                            THEN [err |-> m.err, drives |-> d]
                            ELSE createDirectoryLoop(
                                   WithEntry(d, prevDirPath, m.dir),
                                   path, pathIndex + 1)
                    ELSE createDirectoryLoop(d, path, pathIndex + 1)
       ELSE IF nextDirEntry.type # TypeDirectory
       THEN [err |-> "is not a directory", drives |-> d]
       ELSE createDirectoryLoop(d, path, pathIndex + 1)

createDirectory(d, path) == createDirectoryLoop(d, path, 1)

removeDirectory(d, path, force) ==
  LET parentPath == parentDirectory(path)
      parentDir == getFileInfo(d, parentPath)
  IN IF parentDir = NoInfo THEN [err |-> "does not exist", drives |-> d]
     ELSE IF parentDir.type # TypeDirectory
     THEN [err |-> "is not a directory", drives |-> d]
     ELSE IF equals(path, parentPath) THEN [err |-> "", drives |-> d]
     ELSE LET r == rmdir(parentDir, path.pieces[Len(path.pieces)], force)
          IN IF r.err # "" THEN [err |-> r.err, drives |-> d]
             ELSE [err |-> "", drives |-> WithEntry(d, parentPath, r.dir)]

----------------------------------------------------------------------------
(* The state machine: one action per call a client of FileSystem makes *)

\* The drives a client hands to mount.
MountableDrives ==
  {TransientFileSystemDrive,
   FloppyFileSystemDrive(FileInfoDirectory("/", <<>>))}

\* The labels a floppy can be inserted at: C is taken by the transient
\* drive from construction on.
FloppyLabels == Labels \ {"C"}

\* The paths a client hands to createDirectory and removeDirectory: the
\* prefixes of PieceChain on the given labels, and relative to no drive.
DirPaths(labels) ==
  {FilePath(l, SubSeq(PieceChain, 1, k), TRUE) :
     l \in labels, k \in 0..MaxPieces}
  \cup {FilePath(Null, SubSeq(PieceChain, 1, k), FALSE) : k \in 0..1}

Init ==
  LET c == constructor(NullItem)
  IN /\ drives = c.drives
     /\ localStorage = c.item
     /\ alive = TRUE
     /\ line = NoLine
     /\ last = [op |-> "constructor", err |-> c.err]

\* A new session: the page is loaded again and a FileSystem is constructed
\* over what localStorage holds.
Restart ==
  LET c == constructor(localStorage)
  IN /\ drives' = c.drives
     /\ localStorage' = c.item
     /\ alive' = (c.err = "")
     /\ UNCHANGED line
     /\ last' = [op |-> "constructor", err |-> c.err]

Mount(label, drive) ==
  LET m == mount(drives, label, drive)
  IN /\ alive
     /\ drives' = m.drives
     /\ last' = [op |-> "mount", returned |-> m.ok, err |-> ""]
     /\ UNCHANGED <<localStorage, alive, line>>

Unmount(label) ==
  /\ alive
  /\ drives' = unmount(drives, label)
  /\ last' = [op |-> "unmount", err |-> ""]
  /\ UNCHANGED <<localStorage, alive, line>>

\* `last` also keeps what the call just before logged, when that call
\* ejected a floppy.
Commit ==
  LET r == commit(drives, localStorage)
  IN /\ alive
     /\ drives' = r.drives
     /\ localStorage' = r.item
     /\ last' = [op |-> "commit", err |-> r.err,
                 ejected |-> IF last.op = "ejectFloppy"
                                /\ "floppy" \in DOMAIN last
                             THEN [floppy |-> last.floppy,
                                   rootEntry |-> last.rootEntry]
                             ELSE NoInfo]
     /\ UNCHANGED <<alive, line>>

\* `last` also keeps the mount table and the stored item the call found.
SpawnFloppy(name) ==
  LET r == spawnFloppy(drives, localStorage, name)
  IN /\ alive
     /\ drives' = r.drives
     /\ localStorage' = r.item
     /\ last' = [op |-> "spawnFloppy", err |-> r.err,
                 before |-> [drives |-> drives, item |-> localStorage]]
     /\ UNCHANGED <<alive, line>>

\* `last` also keeps the name and the drive of the record the call removed
\* and, when the call just before was a successful spawnFloppy, what that
\* call had found.
BurnFloppy(name) ==
  LET r == burnFloppy(drives, localStorage, name)
      i == FirstNamed(LoadFloppies(localStorage), name, 1)
  IN /\ alive
     /\ drives' = r.drives
     /\ localStorage' = r.item
     /\ last' = [op |-> "burnFloppy", err |-> r.err,
                 floppy |-> IF i = 0 THEN NoInfo
                            ELSE [name |-> name,
                                  drive |-> LoadFloppies(localStorage)[i].drive],
                 spawned |-> IF last.op = "spawnFloppy" /\ last.err = ""
                             THEN last.before ELSE NoInfo]
     /\ UNCHANGED <<alive, line>>

InsertFloppy(label, name) ==
  LET r == insertFloppy(drives, localStorage, label, name)
  IN /\ alive
     /\ drives' = r.drives
     /\ localStorage' = r.item
     /\ last' = [op |-> "insertFloppy", err |-> r.err]
     /\ UNCHANGED <<alive, line>>

\* The call also logs the record it ejected; `last` keeps it, with the tree
\* the drive held when it was unmounted.
EjectFloppy(label) ==
  LET r == ejectFloppy(drives, localStorage, label)
      i == FirstOnDrive(LoadFloppies(localStorage), label, 1)
  IN /\ alive
     /\ drives' = r.drives
     /\ localStorage' = r.item
     /\ last' = IF label \in DOMAIN drives /\ r.err = ""
                THEN [op |-> "ejectFloppy", err |-> r.err,
                      floppy |-> LoadFloppies(localStorage)[i],
                      rootEntry |-> drives[label].rootEntry]
                ELSE [op |-> "ejectFloppy", err |-> r.err]
     /\ UNCHANGED <<alive, line>>

CreateDirectory(path) ==
  LET r == createDirectory(drives, path)
  IN /\ alive
     /\ drives' = r.drives
     /\ last' = [op |-> "createDirectory", err |-> r.err]
     /\ UNCHANGED <<localStorage, alive, line>>

\* `last` also keeps how many entries the directory held that the call
\* took out of its parent.
RemoveDirectory(path, force) ==
  LET r == removeDirectory(drives, path, force)
  IN /\ alive
     /\ drives' = r.drives
     /\ last' = IF r.err = "" /\ r.drives # drives
                THEN [op |-> "removeDirectory", err |-> r.err,
                      removed |-> Len(getFileInfo(drives, path).entries)]
                ELSE [op |-> "removeDirectory", err |-> r.err]
     /\ UNCHANGED <<localStorage, alive, line>>

\* A client takes a directory from getFileInfo and calls addItem on it.
AddItem(dirPath, info) ==
  LET dir == getFileInfo(drives, dirPath)
      r == addItem(dir, info)
  IN /\ alive
     /\ dir # NoInfo
     /\ dir.type = TypeDirectory
     /\ drives' = IF r.err = "" THEN WithEntry(drives, dirPath, r.dir)
                  ELSE drives
     /\ last' = [op |-> "addItem", err |-> r.err]
     /\ UNCHANGED <<localStorage, alive, line>>

\* A client takes a directory from getFileInfo and calls mkdir on it.
Mkdir(dirPath, name) ==
  LET dir == getFileInfo(drives, dirPath)
      r == mkdir(dir, name)
  IN /\ alive
     /\ dir # NoInfo
     /\ dir.type = TypeDirectory
     /\ drives' = IF r.err = "" THEN WithEntry(drives, dirPath, r.dir)
                  ELSE drives
     /\ last' = [op |-> "mkdir", err |-> r.err]
     /\ UNCHANGED <<localStorage, alive, line>>

GetFileInfo(path) ==
  /\ alive
  /\ last' = [op |-> "getFileInfo", err |-> "", path |-> path,
              returned |-> getFileInfo(drives, path)]
  /\ UNCHANGED <<drives, localStorage, alive, line>>

TrySerializeFloppy(label) ==
  LET r == trySerializeFloppy(drives, label)
  IN /\ alive
     /\ last' = [op |-> "trySerializeFloppy", err |-> r.err,
                 label |-> label, returned |-> r.returned]
     /\ UNCHANGED <<drives, localStorage, alive, line>>

Lifecycle ==
  \/ \E name \in NameInputs : SpawnFloppy(name)
  \/ \E label \in Labels, name \in NameInputs : InsertFloppy(label, name)
  \/ \E label \in Labels : EjectFloppy(label)
  \/ \E name \in NameInputs : BurnFloppy(name)
  \/ Commit

Directories(paths) ==
  \/ \E path \in paths : CreateDirectory(path)
  \/ \E path \in paths, force \in BOOLEAN : RemoveDirectory(path, force)

MountTable ==
  \/ \E label \in Labels, drive \in MountableDrives : Mount(label, drive)
  \/ \E label \in Labels : Unmount(label)

Next == Lifecycle \/ Directories(DirPaths(FloppyLabels))

\* The floppy lifecycle and the directory calls on the floppy labels.
Spec == Init /\ [][Next]_vars

\* The floppy lifecycle alone, from a manager over an empty store.
SpecLifecycle == Init /\ [][Lifecycle]_vars

\* The lifecycle with the raw mount table calls and changes of session.
NextSession == Lifecycle \/ MountTable \/ Restart

SpecSession == Init /\ [][NextSession]_vars

\* The lifecycle with createDirectory on the floppy labels: the trees that
\* are ejected, stored and inserted again have every depth up to MaxPieces.
NextGrow ==
  Lifecycle \/ \E path \in DirPaths(FloppyLabels) : CreateDirectory(path)

SpecGrow == Init /\ [][NextGrow]_vars

\* The entries a client hands to addItem: a text file that has the name of
\* the first directory of PieceChain, and an executable.
TextDocs == [type |-> TypeTextFile, name |-> "docs", data |-> TextFile("hello")]
ExeGame == [type |-> TypeExecutable, name |-> "game"]
ItemInputs == {TextDocs, ExeGame}

\* The directories addItem and mkdir are called on.
ItemDirs == {FilePath("D", SubSeq(PieceChain, 1, k), TRUE) : k \in 0..1}

\* The paths handed to createDirectory and removeDirectory on one floppy
\* label, with one directory of the transient drive.
TreeDirPaths == DirPaths({"D"}) \cup {FilePath("C", <<"docs">>, TRUE)}

\* The paths handed to getFileInfo: every sequence of at most MaxPieces
\* names of directories and files, on every label, and one with no drive.
PathNames == {"docs", "sub", "game"}
RECURSIVE PieceSeqs(_)
PieceSeqs(n) ==
  IF n = 0 THEN {<<>>}
  ELSE PieceSeqs(n - 1)
       \cup {Append(p, x) : p \in {q \in PieceSeqs(n - 1) : Len(q) = n - 1},
                            x \in PathNames}
LookupPaths ==
  {FilePath(l, p, TRUE) : l \in Labels, p \in PieceSeqs(MaxPieces)}
  \cup {FilePath(Null, <<"docs">>, FALSE), NoPath}

NextTree ==
  \/ SpawnFloppy(NameWork)
  \/ InsertFloppy("D", NameWork)
  \/ EjectFloppy("D")
  \/ Commit
  \/ Directories(TreeDirPaths)
  \/ \E dirPath \in ItemDirs, info \in ItemInputs : AddItem(dirPath, info)
  \/ \E dirPath \in ItemDirs : Mkdir(dirPath, "docs")

\* One floppy and the trees of its drive through insertions, commits and
\* ejections: the directory calls, and addItem and mkdir on directories.
SpecTree == Init /\ [][NextTree]_vars

NextLookup ==
  \/ SpawnFloppy(NameWork)
  \/ InsertFloppy("D", NameWork)
  \/ Directories(TreeDirPaths)
  \/ \E dirPath \in ItemDirs, info \in ItemInputs : AddItem(dirPath, info)
  \/ \E path \in LookupPaths : GetFileInfo(path)
  \/ \E label \in Labels : TrySerializeFloppy(label)

\* The trees built on one floppy and the transient drive, with getFileInfo
\* on every path of LookupPaths and trySerializeFloppy on every label.
SpecLookup == Init /\ [][NextLookup]_vars

----------------------------------------------------------------------------
(* Construction over a stored array that an earlier session, another       *)
(* version of the program or the user left in localStorage.                *)

DocsTree ==
  [type |-> TypeDirectory, name |-> "/",
   entries |-> <<[type |-> TypeDirectory, name |-> "docs",
                  entries |-> <<>>]>>]

NotesTree ==
  [type |-> TypeDirectory, name |-> "/",
   entries |-> <<[type |-> TypeTextFile, name |-> "notes",
                  textData |-> "hello"]>>]

GameTree ==
  [type |-> TypeDirectory, name |-> "/",
   entries |-> <<[type |-> TypeExecutable, name |-> "game"]>>]

\* Data that deserializes, and data that does not: text that is no JSON
\* and a tree with a tag #deserializeFile does not know.
SoundData ==
  {EmptyFloppyData, JsonStringify([root |-> DocsTree]),
   JsonStringify([root |-> NotesTree])}

CorruptData == {Garbage, JsonStringify([root |-> GameTree])}

StoredRecords ==
  [name : GoodNames, drive : Labels \cup {Null},
   data : SoundData \cup CorruptData]

StoredArrays ==
  {<<>>} \cup {<<r>> : r \in StoredRecords}
  \cup {a \in {<<r1, r2>> : r1 \in StoredRecords, r2 \in StoredRecords} :
          a[1].name # a[2].name}

InitBoot ==
  /\ localStorage \in {NullItem} \cup {JsonStringify(a) : a \in StoredArrays}
  /\ drives = NoDrives
  /\ alive = FALSE
  /\ line = NoLine
  /\ last = [op |-> "none", err |-> ""]

SpecBoot == InitBoot /\ [][Restart]_vars

----------------------------------------------------------------------------
(* What the properties below read *)

Floppies == LoadFloppies(localStorage)

Named(fs, name) == {i \in 1..Len(fs) : fs[i].name = name}

Claiming(fs, label) == {i \in 1..Len(fs) : fs[i].drive = label}

HoldsFloppy(d, label) == label \in DOMAIN d /\ d[label].type = KindFloppy

\* A serialized entry describes a live one: same kind and name, same text or
\* bytes, and for a directory the same entries in the same order.
RECURSIVE Describes(_, _)
Describes(ser, live) ==
  /\ ser.type = live.type
  /\ ser.name = live.name
  /\ ser.type = TypeDirectory =>
       /\ Len(ser.entries) = Len(live.entries)
       /\ \A i \in 1..Len(ser.entries) :
            Describes(ser.entries[i], live.entries[i])
  /\ ser.type = TypeTextFile => ser.textData = live.data.text
  /\ ser.type = TypeBinary => ser.binaryData = live.data.data

\* The stored data is JSON text of a tree that describes the live tree.
DataDescribes(data, rootEntry) ==
  /\ JsonParses(data)
  /\ DOMAIN JsonParse(data) = {"root"}
  /\ Describes(JsonParse(data).root, rootEntry)

\* Two mount tables agree on every label but one.
SameDrivesBut(d1, d2, label) ==
  /\ DOMAIN d1 \ {label} = DOMAIN d2 \ {label}
  /\ \A l \in DOMAIN d1 \ {label} : d1[l] = d2[l]

\* Two record arrays of one length agree on every record but one.
SameRecordsBut(fs1, fs2, i) ==
  /\ Len(fs1) = Len(fs2)
  /\ \A j \in 1..Len(fs1) : j # i => fs1[j] = fs2[j]

----------------------------------------------------------------------------
(* C1 *)

\* C1: in every state the floppy lifecycle reaches from a manager over an
\* empty store, a record has drive = L exactly when its floppy is mounted
\* at L: every record with a drive names a label that holds a floppy, and
\* every occupied label other than C is claimed by exactly one record.
C1_RecordsMatchMountTable ==
  /\ \A i \in 1..Len(Floppies) :
       Floppies[i].drive # Null => HoldsFloppy(drives, Floppies[i].drive)
  /\ \A label \in DOMAIN drives \ {"C"} :
       Cardinality(Claiming(Floppies, label)) = 1

----------------------------------------------------------------------------
(* C2 *)

\* C2: mount(L, d) returns false and leaves the drive at L in place when L
\* is occupied, and registers d at L (changing no other label) otherwise;
\* right after construction mount("C", d) fails for every drive d.
C2_MountRefusesOccupiedLabel ==
  /\ [][\A label \in Labels, drive \in MountableDrives :
          (last'.op = "mount" /\ Mount(label, drive)) =>
            IF label \in DOMAIN drives
            THEN last'.returned = FALSE /\ drives' = drives
            ELSE /\ last'.returned = TRUE
                 /\ DOMAIN drives' = DOMAIN drives \cup {label}
                 /\ drives'[label] = drive
                 /\ SameDrivesBut(drives, drives', label)]_vars
  /\ []((last.op = "constructor" /\ alive) =>
          /\ "C" \in DOMAIN drives
          /\ drives["C"].type = KindTransient
          /\ \A drive \in MountableDrives :
               ~mount(drives, "C", drive).ok)

C2_Witness ==
  /\ last.op = "mount"
  /\ last.returned = FALSE
  /\ HoldsFloppy(drives, "D")

----------------------------------------------------------------------------
(* C3 *)

\* C3: when commit() returns, every record whose drive is a label holding a
\* floppy keeps its name and drive and its data describes the live tree at
\* that label as it was at the call, and every record with drive = null is
\* as it was; with floppy "work" at D holding the single empty directory
\* docs, the record of work is left with drive D and a root of one entry,
\* the directory docs.
C3_CommitStoresLiveTrees ==
  [][(last'.op = "commit" /\ last'.err = "" /\ Commit) =>
       LET old == LoadFloppies(localStorage)
           new == LoadFloppies(localStorage')
       IN /\ Len(new) = Len(old)
          /\ \A i \in 1..Len(old) :
               /\ new[i].name = old[i].name
               /\ (old[i].drive = Null) => (new[i] = old[i])
               /\ HoldsFloppy(drives, old[i].drive) =>
                    /\ new[i].drive = old[i].drive
                    /\ DataDescribes(new[i].data,
                                     drives[old[i].drive].rootEntry)
               /\ (/\ old[i].name = NameWork
                   /\ old[i].drive = "D"
                   /\ HoldsFloppy(drives, "D")
                   /\ drives["D"].rootEntry =
                        FileInfoDirectory("/",
                          <<FileInfoDirectory("docs", <<>>)>>)) =>
                    new[i] = [name |-> NameWork, drive |-> "D",
                              data |-> JsonStringify([root |-> DocsTree])]]_vars

C3_Witness ==
  /\ last.op = "commit"
  /\ last.err = ""
  /\ \E i \in 1..Len(Floppies) :
       Floppies[i] = [name |-> NameWork, drive |-> "D",
                      data |-> JsonStringify([root |-> DocsTree])]
  /\ \E i \in 1..Len(Floppies) :
       Floppies[i].drive = Null /\ Floppies[i].data # EmptyFloppyData

----------------------------------------------------------------------------
(* C4 *)

\* C4: when a record is marked mounted at a label that holds no floppy (the
\* label is empty or holds a transient drive), commit() completes without
\* failure, writes the array with that record's drive null and its data
\* unchanged.
C4_CommitClearsStaleDrive ==
  [][(last'.op = "commit" /\ Commit) =>
       LET old == LoadFloppies(localStorage)
           new == LoadFloppies(localStorage')
           stale == {i \in 1..Len(old) :
                       old[i].drive # Null
                       /\ ~HoldsFloppy(drives, old[i].drive)}
       IN stale # {} =>
            /\ last'.err = ""
            /\ Len(new) = Len(old)
            /\ \A i \in stale :
                 new[i] = [old[i] EXCEPT !.drive = Null]]_vars

----------------------------------------------------------------------------
(* C5 *)

\* C5: a manager constructed right after a successful commit() has an empty
\* transient drive at C and, for every record with drive = L, a floppy at L
\* whose tree equals the tree mounted at L at the commit; the construction
\* leaves the stored array unchanged.
C5_FloppiesSurviveSession ==
  [][(last.op = "commit" /\ last.err = "" /\ last'.op = "constructor"
      /\ Restart) =>
       /\ alive'
       /\ "C" \in DOMAIN drives'
       /\ drives'["C"] = TransientFileSystemDrive
       /\ \A i \in 1..Len(Floppies) :
            Floppies[i].drive # Null =>
              /\ HoldsFloppy(drives', Floppies[i].drive)
              /\ drives'[Floppies[i].drive].rootEntry =
                   drives[Floppies[i].drive].rootEntry
       /\ localStorage' = localStorage]_vars

----------------------------------------------------------------------------
(* C6 *)

\* The records of a stored array the constructor cannot mount: one whose
\* data does not deserialize, or one whose label is already occupied.
Unmountable(fs) ==
  {i \in 1..Len(fs) :
     /\ fs[i].drive # Null
     /\ \/ fs[i].data \in CorruptData
        \/ fs[i].drive = "C"
        \/ \E j \in 1..(i - 1) : fs[j].drive = fs[i].drive}

\* C6: when one stored record with a drive fails to deserialize or to
\* mount, construction still completes with C mounted and every other
\* record with a drive and sound data mounted at its label.
C6_CorruptRecordDoesNotAbort ==
  (last.op = "constructor" /\ Cardinality(Unmountable(Floppies)) = 1) =>
    /\ alive
    /\ "C" \in DOMAIN drives
    /\ \A i \in 1..Len(Floppies) :
         (Floppies[i].drive # Null /\ i \notin Unmountable(Floppies)) =>
           /\ HoldsFloppy(drives, Floppies[i].drive)
           /\ DataDescribes(Floppies[i].data,
                            drives[Floppies[i].drive].rootEntry)

----------------------------------------------------------------------------
(* C7 *)

\* C7: insertFloppy(L, n) fails when no record is named n and when L is
\* occupied, and a failing call changes neither the mount table nor the
\* stored array; a successful call mounts at L a floppy whose tree is the
\* one the record's data describes, sets that record's drive to L and
\* changes no other record and no other label.
C7_InsertFloppyMountsOrFails ==
  [][\A label \in Labels, name \in NameInputs :
       (last'.op = "insertFloppy" /\ InsertFloppy(label, name)) =>
         LET old == LoadFloppies(localStorage)
             new == LoadFloppies(localStorage')
         IN /\ (Named(old, name) = {} \/ label \in DOMAIN drives) =>
                 last'.err # ""
            /\ (last'.err # "") =>
                 (drives' = drives /\ localStorage' = localStorage)
            /\ (last'.err = "") =>
                 \E i \in Named(old, name) :
                   /\ HoldsFloppy(drives', label)
                   /\ DataDescribes(old[i].data, drives'[label].rootEntry)
                   /\ SameDrivesBut(drives, drives', label)
                   /\ new[i] = [old[i] EXCEPT !.drive = label]
                   /\ SameRecordsBut(old, new, i)]_vars

C7_Witness ==
  /\ last.op = "insertFloppy"
  /\ last.err = ""
  /\ DOMAIN drives = {"C", "E"}
  /\ drives["E"].rootEntry.entries # <<>>
  /\ Len(Floppies) = 2

----------------------------------------------------------------------------
(* C8 *)

\* C8: ejectFloppy(L) changes nothing when no drive is mounted at L; it
\* fails, changing nothing, when a drive is mounted at L and no record has
\* drive = L; otherwise it removes L from the mount table and sets to null
\* the drive of the record claiming L (the first one in the array), leaving
\* every other record and every other label as it was.
C8_EjectFloppyReleasesLabel ==
  [][\A label \in Labels :
       (last'.op = "ejectFloppy" /\ EjectFloppy(label)) =>
         LET old == LoadFloppies(localStorage)
             new == LoadFloppies(localStorage')
             claiming == Claiming(old, label)
         IN /\ (label \notin DOMAIN drives) =>
                 /\ last'.err = ""
                 /\ drives' = drives
                 /\ localStorage' = localStorage
            /\ (label \in DOMAIN drives /\ claiming = {}) =>
                 /\ last'.err # ""
                 /\ drives' = drives
                 /\ localStorage' = localStorage
            /\ (label \in DOMAIN drives /\ claiming # {}) =>
                 /\ last'.err = ""
                 /\ DOMAIN drives' = DOMAIN drives \ {label}
                 /\ SameDrivesBut(drives, drives', label)
                 /\ \E i \in claiming :
                      /\ \A j \in claiming : i <= j
                      /\ new[i] = [old[i] EXCEPT !.drive = Null]
                      /\ SameRecordsBut(old, new, i)]_vars

C8_Witness ==
  /\ last.op = "ejectFloppy"
  /\ last.err = ""
  /\ "floppy" \in DOMAIN last
  /\ Len(Floppies) = 2
  /\ \E label \in DOMAIN drives : HoldsFloppy(drives, label)

----------------------------------------------------------------------------
(* C9 *)

----------------------------------------------------------------------------
(* C10 *)

\* C10: spawnFloppy(n) fails, leaving the stored array unchanged, when n is
\* empty or holds a character that is no letter, digit or underscore, and
\* when a record named n exists; otherwise it appends the one record
\* {name: n, drive: null, data: an empty root directory} and changes
\* nothing else; so no two records ever share a name.
C10_SpawnFloppyAppendsOnce ==
  /\ [][\A name \in NameInputs :
          (last'.op = "spawnFloppy" /\ SpawnFloppy(name)) =>
            LET old == LoadFloppies(localStorage)
                new == LoadFloppies(localStorage')
            IN IF name \in {NameEmpty, NameBad} \/ Named(old, name) # {}
               THEN /\ last'.err # ""
                    /\ localStorage' = localStorage
                    /\ drives' = drives
               ELSE /\ last'.err = ""
                    /\ new = Append(old,
                         [name |-> name, drive |-> Null,
                          data |-> [json |->
                            [root |-> [type |-> "dir", name |-> "/",
                                       entries |-> <<>>]]]])
                    /\ drives' = drives]_vars
  /\ [](\A i, j \in 1..Len(Floppies) :
          i # j => Floppies[i].name # Floppies[j].name)

C10_Witness ==
  /\ last.op = "spawnFloppy"
  /\ last.err = ""
  /\ Len(Floppies) = 2
  /\ \E i \in 1..Len(Floppies) : Floppies[i].drive # Null

----------------------------------------------------------------------------
(* C11 *)

\* C11: for a valid name n that no record has, spawnFloppy(n) followed at
\* once by burnFloppy(n) leaves the stored array as it was before the two
\* calls (same length, same records in the same order, none named n) and
\* leaves the mount table as it was.
C11_SpawnThenBurnRestores ==
  (/\ last.op = "burnFloppy"
   /\ last.spawned # NoInfo
   /\ last.floppy # NoInfo
   /\ Named(LoadFloppies(last.spawned.item), last.floppy.name) = {}) =>
    /\ last.err = ""
    /\ Floppies = LoadFloppies(last.spawned.item)
    /\ Named(Floppies, last.floppy.name) = {}
    /\ drives = last.spawned.drives

C11_Witness ==
  /\ last.op = "burnFloppy"
  /\ last.spawned # NoInfo
  /\ last.floppy # NoInfo
  /\ Named(LoadFloppies(last.spawned.item), last.floppy.name) = {}
  /\ Len(Floppies) = 1
  /\ HoldsFloppy(drives, "D")

----------------------------------------------------------------------------
(* C12 *)

\* C12: burnFloppy(n) fails, changing neither the mount table nor the
\* stored array, when no record is named n; otherwise no record is named n
\* afterwards, the label the record claimed is free, every other record is
\* as it was and in the same order, and every other label holds what it
\* held.
C12_BurnFloppyRemovesRecord ==
  [][\A name \in NameInputs :
       (last'.op = "burnFloppy" /\ BurnFloppy(name)) =>
         LET old == LoadFloppies(localStorage)
             new == LoadFloppies(localStorage')
         IN IF Named(old, name) = {}
            THEN /\ last'.err # ""
                 /\ drives' = drives
                 /\ localStorage' = localStorage
            ELSE \E i \in Named(old, name) :
                   /\ last'.err = ""
                   /\ Named(new, name) = {}
                   /\ new = SubSeq(old, 1, i - 1)
                             \o SubSeq(old, i + 1, Len(old))
                   /\ IF old[i].drive = Null
                      THEN drives' = drives
                      ELSE /\ old[i].drive \notin DOMAIN drives'
                           /\ SameDrivesBut(drives, drives', old[i].drive)]_vars

C12_Witness ==
  /\ last.op = "burnFloppy"
  /\ last.err = ""
  /\ last.floppy.drive = "D"
  /\ "D" \notin DOMAIN drives
  /\ Len(Floppies) = 1
  /\ HoldsFloppy(drives, "E")
  /\ drives["E"].rootEntry.entries # <<>>

----------------------------------------------------------------------------
(* What the properties of the directory calls read *)

\* The entry reached from an entry by descending through the pieces in
\* order: each step needs a directory and an entry of it with that name.
RECURSIVE Descend(_, _)
Descend(entry, pieces) ==
  IF pieces = <<>> THEN entry
  ELSE IF entry.type # TypeDirectory THEN NoInfo
  ELSE LET named == {i \in 1..Len(entry.entries) :
                       entry.entries[i].name = pieces[1]}
       IN IF named = {} THEN NoInfo
          ELSE Descend(entry.entries[CHOOSE i \in named : TRUE], Tail(pieces))

\* What a path denotes in a mount table.
Resolve(d, path) ==
  IF path = NoPath THEN NoInfo
  ELSE IF path.drive \notin DOMAIN d THEN NoInfo
  ELSE Descend(d[path.drive].rootEntry, path.pieces)

IsDirectory(entry) == entry # NoInfo /\ entry.type = TypeDirectory

\* path is other, or lies above it on the same drive.
IsPrefix(path, other) ==
  /\ path.drive = other.drive
  /\ Len(path.pieces) <= Len(other.pieces)
  /\ SubSeq(other.pieces, 1, Len(path.pieces)) = path.pieces

Prefix(path, k) == FilePath(path.drive, SubSeq(path.pieces, 1, k), TRUE)

\* No two entries of a directory share a name, at any depth.
RECURSIVE UniqueNames(_)
UniqueNames(entry) ==
  entry.type = TypeDirectory =>
    /\ \A i, j \in 1..Len(entry.entries) :
         i # j => entry.entries[i].name # entry.entries[j].name
    /\ \A i \in 1..Len(entry.entries) : UniqueNames(entry.entries[i])

\* The entries of a tree, the root included, of a kind other than
\* directory, text file and binary, as the paths of indices to them.
RECURSIVE Unserializable(_)
Unserializable(entry) ==
  IF entry.type = TypeDirectory
  THEN UNION {{<<i>> \o q : q \in Unserializable(entry.entries[i])} :
                i \in 1..Len(entry.entries)}
  ELSE IF entry.type \in {TypeTextFile, TypeBinary} THEN {} ELSE {<<>>}

\* A sequence without its i-th element.
Without(seq, i) == SubSeq(seq, 1, i - 1) \o SubSeq(seq, i + 1, Len(seq))

----------------------------------------------------------------------------
(* C13 *)

\* C13: getFileInfo(path) returns the entry reached by descending from the
\* root of the drive of path through each piece in order; it returns "not
\* found", raising nothing and changing nothing, when the path has no
\* drive, the drive is not mounted, a piece before the last is missing or
\* names no directory, or the last piece is missing; with no pieces on a
\* mounted drive it returns the root directory of the drive.
C13_GetFileInfoDescends ==
  /\ [][(last'.op = "getFileInfo") =>
          (drives' = drives /\ localStorage' = localStorage)]_vars
  /\ [](last.op = "getFileInfo" =>
          LET path == last.path
          IN /\ last.err = ""
             /\ last.returned = Resolve(drives, path)
             /\ (path = NoPath \/ path.drive = Null
                  \/ path.drive \notin DOMAIN drives) =>
                  last.returned = NoInfo
             /\ (path # NoPath /\ path.drive \in DOMAIN drives) =>
                  /\ (path.pieces = <<>>) =>
                       last.returned = drives[path.drive].rootEntry
                  /\ (\E k \in 0..(Len(path.pieces) - 1) :
                        ~IsDirectory(Resolve(drives, Prefix(path, k)))) =>
                       last.returned = NoInfo
                  /\ (last.returned # NoInfo /\ path.pieces # <<>>) =>
                       last.returned.name = path.pieces[Len(path.pieces)])

C13_Witness ==
  /\ last.op = "getFileInfo"
  /\ last.path = FilePath("D", <<"docs", "game">>, TRUE)
  /\ last.returned = ExeGame
  /\ HoldsFloppy(drives, "D")
  /\ \A i \in 1..Len(drives["D"].rootEntry.entries) :
       drives["D"].rootEntry.entries[i].name # "game"
  /\ \E i \in 1..Len(drives["D"].rootEntry.entries) :
       drives["D"].rootEntry.entries[i].type = TypeDirectory

----------------------------------------------------------------------------
(* C14 *)

\* C14: whenever createDirectory(path) returns without failure,
\* getFileInfo(path) then returns a directory named by the last piece of
\* path, every prefix of path resolves to a directory, a directory the call
\* created holds nothing but what the call created, every entry there was
\* before is still there with its kind and name (and unchanged when it does
\* not lie on path), and the same call made again changes nothing.
C14_CreateDirectoryCreates ==
  [][\A path \in TreeDirPaths :
       (last'.op = "createDirectory" /\ last'.err = ""
        /\ CreateDirectory(path)) =>
         LET n == Len(path.pieces)
         IN /\ IsDirectory(getFileInfo(drives', path))
            /\ (n > 0) => getFileInfo(drives', path).name = path.pieces[n]
            /\ \A k \in 0..n :
                 /\ IsDirectory(Resolve(drives', Prefix(path, k)))
                 /\ (k > 0 /\ Resolve(drives, Prefix(path, k)) = NoInfo) =>
                      Resolve(drives', Prefix(path, k)).entries =
                        IF k = n THEN <<>>
                        ELSE <<Resolve(drives', Prefix(path, k + 1))>>
            /\ \A p \in LookupPaths :
                 (p # NoPath /\ Resolve(drives, p) # NoInfo) =>
                   /\ Resolve(drives', p) # NoInfo
                   /\ Resolve(drives', p).type = Resolve(drives, p).type
                   /\ Resolve(drives', p).name = Resolve(drives, p).name
                   /\ ~IsPrefix(p, path) =>
                        Resolve(drives', p) = Resolve(drives, p)
            /\ createDirectory(drives', path) =
                 [err |-> "", drives |-> drives']]_vars

----------------------------------------------------------------------------
(* C15 *)

\* C15: removeDirectory(path, force) changes nothing and does not fail on
\* the root of a mounted drive; it fails when the parent of path is missing
\* or is no directory; on any other path it succeeds exactly when the last
\* piece names an entry of the parent that is a directory and is empty or
\* force is true, and then that entry alone leaves the listing of the
\* parent; a failing call leaves every tree as it was.
C15_RemoveDirectoryRemovesOne ==
  [][\A path \in TreeDirPaths, force \in BOOLEAN :
       (last'.op = "removeDirectory" /\ RemoveDirectory(path, force)) =>
         LET n == Len(path.pieces)
             parent == Resolve(drives, Prefix(path, n - 1))
             named == {i \in 1..Len(parent.entries) :
                         parent.entries[i].name = path.pieces[n]}
         IN /\ (last'.err # "") => drives' = drives
            /\ IF n = 0
               THEN (path.drive \in DOMAIN drives) =>
                      (last'.err = "" /\ drives' = drives)
               ELSE IF ~IsDirectory(parent) THEN last'.err # ""
               ELSE /\ (last'.err = "") <=>
                         \E i \in named :
                           /\ parent.entries[i].type = TypeDirectory
                           /\ parent.entries[i].entries = <<>> \/ force
                    /\ (last'.err = "") =>
                         \E i \in named :
                           drives' = WithEntry(drives, Prefix(path, n - 1),
                             [parent EXCEPT !.entries = Without(@, i)])]_vars

C15_Witness ==
  /\ last.op = "removeDirectory"
  /\ last.err = ""
  /\ "removed" \in DOMAIN last
  /\ last.removed = 2
  /\ HoldsFloppy(drives, "D")
  /\ drives["D"].rootEntry.entries # <<>>

----------------------------------------------------------------------------
(* C16 *)

\* C16: in every state reached from a manager over an empty store by
\* addItem, mkdir, createDirectory, removeDirectory, insertFloppy,
\* ejectFloppy and commit calls, no two entries of a directory of a mounted
\* drive share a name; addItem and mkdir with a name the directory already
\* has fail and leave its entries as they were.
C16_NamesUniqueInDirectory ==
  /\ [](\A label \in DOMAIN drives : UniqueNames(drives[label].rootEntry))
  /\ [][\A dirPath \in ItemDirs, info \in ItemInputs :
          (last'.op = "addItem" /\ AddItem(dirPath, info)) =>
            LET dir == Resolve(drives, dirPath)
            IN IF \E i \in 1..Len(dir.entries) :
                    dir.entries[i].name = info.name
               THEN last'.err # "" /\ drives' = drives
               ELSE /\ last'.err = ""
                    /\ Resolve(drives', dirPath).entries =
                         Append(dir.entries, info)]_vars
  /\ [][\A dirPath \in ItemDirs :
          (last'.op = "mkdir" /\ Mkdir(dirPath, "docs")) =>
            LET dir == Resolve(drives, dirPath)
            IN IF \E i \in 1..Len(dir.entries) : dir.entries[i].name = "docs"
               THEN last'.err # "" /\ drives' = drives
               ELSE /\ last'.err = ""
                    /\ Resolve(drives', dirPath).entries =
                         Append(dir.entries,
                                FileInfoDirectory("docs", <<>>))]_vars

C16_Witness ==
  /\ last.op = "addItem"
  /\ last.err # ""
  /\ HoldsFloppy(drives, "D")
  /\ \E i \in 1..Len(drives["D"].rootEntry.entries) :
       /\ drives["D"].rootEntry.entries[i] # TextDocs
       /\ drives["D"].rootEntry.entries[i].name = "docs"
       /\ Len(drives["D"].rootEntry.entries[i].entries) = 3

----------------------------------------------------------------------------
(* C19 *)

\* C19: trySerializeFloppy(L) never fails: it returns null when nothing is
\* mounted at L, when L holds a transient drive and when the tree of the
\* floppy at L holds an entry that cannot be serialized; otherwise it
\* returns JSON text describing the tree of the floppy as it stands; it
\* changes neither the mount table nor the stored array.
C19_TrySerializeFloppyNeverFails ==
  /\ [][(last'.op = "trySerializeFloppy") =>
          (drives' = drives /\ localStorage' = localStorage)]_vars
  /\ [](last.op = "trySerializeFloppy" =>
          /\ last.err = ""
          /\ IF HoldsFloppy(drives, last.label)
                /\ Unserializable(drives[last.label].rootEntry) = {}
             THEN DataDescribes(last.returned, drives[last.label].rootEntry)
             ELSE last.returned = NullItem)

C19_Witness ==
  /\ last.op = "trySerializeFloppy"
  /\ last.label = "D"
  /\ last.returned = NullItem
  /\ HoldsFloppy(drives, "D")
  /\ \A i \in 1..Len(drives["D"].rootEntry.entries) :
       drives["D"].rootEntry.entries[i].type = TypeDirectory

----------------------------------------------------------------------------
(* C17: trees handed to the serializer *)

\* Most entries of a directory of the trees below.
MaxEntries == 2

\* The sequences of at most n elements of a set.
RECURSIVE SeqsUpTo(_, _)
SeqsUpTo(S, n) ==
  IF n = 0 THEN {<<>>}
  ELSE SeqsUpTo(S, n - 1)
       \cup {Append(q, x) : q \in {r \in SeqsUpTo(S, n - 1) : Len(r) = n - 1},
                            x \in S}

LeafInputs ==
  {[type |-> TypeTextFile, name |-> "notes", data |-> TextFile("")],
   [type |-> TypeTextFile, name |-> "notes", data |-> TextFile("hello")],
   [type |-> TypeBinary, name |-> "blob", data |-> BinaryFile("00ff")]}

\* Directories "docs" of at most n of these files.
DirInputs(n) ==
  {FileInfoDirectory("docs", es) : es \in SeqsUpTo(LeafInputs, n)}

\* Root directories of at most n text files, binaries and directories of
\* them, no name twice in a directory.
TreeInputs(n) ==
  {t \in {FileInfoDirectory("/", es) :
            es \in SeqsUpTo(LeafInputs \cup DirInputs(n), n)} :
     UniqueNames(t)}

\* Floppy "work" is mounted at D with one of the trees and nothing of it is
\* stored yet.
InitRoundTrip ==
  /\ drives \in {Put(Put(NoDrives, "C", TransientFileSystemDrive), "D",
                      FloppyFileSystemDrive(t)) : t \in TreeInputs(MaxEntries)}
  /\ localStorage = JsonStringify(<<[name |-> NameWork, drive |-> "D",
                                     data |-> EmptyFloppyData]>>)
  /\ alive = TRUE
  /\ line = NoLine
  /\ last = [op |-> "addItem", err |-> ""]

\* The tree is serialized by commit and deserialized by the constructor of
\* the next session.
SpecRoundTrip == InitRoundTrip /\ [][Commit \/ Restart]_vars

\* C17: for every tree of directories, text files and binaries, the tree
\* deserialized from the serialization of the tree has the same structure:
\* the same names, kinds and order of entries and the same text and bytes
\* at every level.
C17_SerializeRoundTrip ==
  /\ [][(last.op = "commit" /\ last.err = "" /\ last'.op = "constructor"
         /\ Restart) =>
          /\ alive'
          /\ HoldsFloppy(drives', "D")
          /\ drives'["D"].rootEntry = drives["D"].rootEntry]_vars
  /\ [](HoldsFloppy(drives, "D") =>
          /\ CanSerialize(drives["D"].rootEntry)
          /\ CanDeserialize(serialize(drives["D"]).root)
          /\ fromSerialized(serialize(drives["D"])) = drives["D"]
          /\ Describes(serialize(drives["D"]).root, drives["D"].rootEntry))

C17_Witness ==
  /\ last.op = "constructor"
  /\ HoldsFloppy(drives, "D")
  /\ Len(drives["D"].rootEntry.entries) = 2
  /\ \E i \in 1..2 :
       /\ drives["D"].rootEntry.entries[i].type = TypeDirectory
       /\ Len(drives["D"].rootEntry.entries[i].entries) = 2
  /\ DataDescribes(Floppies[1].data, drives["D"].rootEntry)

----------------------------------------------------------------------------
(* C18: two floppies and executables in their trees *)

CommitDirs ==
  {FilePath(l, SubSeq(PieceChain, 1, k), TRUE) : l \in FloppyLabels, k \in 0..1}

NextCommit ==
  \/ \E name \in GoodNames : SpawnFloppy(name)
  \/ \E label \in FloppyLabels, name \in GoodNames : InsertFloppy(label, name)
  \/ \E label \in FloppyLabels : EjectFloppy(label)
  \/ \E path \in CommitDirs : CreateDirectory(path)
  \/ \E dirPath \in CommitDirs : AddItem(dirPath, ExeGame)
  \/ Commit

SpecCommit == Init /\ [][NextCommit]_vars

\* C18: when the tree of a mounted floppy holds, at any depth, an entry that
\* is no directory, text file or binary, commit() fails with the error of
\* the unsupported file kind and the stored array is what it was before the
\* call.
C18_CommitFailsOnUnsupportedKind ==
  [][(/\ last'.op = "commit"
      /\ \E label \in DOMAIN drives :
           /\ drives[label].type = KindFloppy
           /\ Unserializable(drives[label].rootEntry) # {}
      /\ Commit) =>
       /\ last'.err = "Unrecognized or unsupported file info type"
       /\ localStorage' = localStorage]_vars

----------------------------------------------------------------------------
(* C20: path strings *)

\* Longest string handed to tryParse.
MaxStrLen == 5

\* The characters the strings are made of: a lower-case and an upper-case
\* drive letter, the colon, the separator, the dot and a letter that is
\* the name of a piece.
PathChars == {"c", "D", ":", "/", ".", "a"}

RECURSIVE StringsOfLen(_)
StringsOfLen(n) ==
  IF n = 0 THEN {""}
  ELSE {t \o c : t \in StringsOfLen(n - 1), c \in PathChars}

\* The strings of at most n of these characters.
PathStrings(n) == UNION {StringsOfLen(k) : k \in 0..n}

\* No manager is needed: tryParse is static. A client holds a string.
InitParse ==
  /\ drives = NoDrives
  /\ localStorage = NullItem
  /\ alive = FALSE
  /\ line = NoLine
  /\ \E text \in PathStrings(MaxStrLen), defaultDrive \in {Null, "D"} :
       last = [op |-> "input", err |-> "", source |-> text, text |-> text,
               defaultDrive |-> defaultDrive]

\* FilePath.tryParse on the string the client holds; `last` keeps the path
\* the string was printed from, when it was.
TryParse ==
  /\ last.op \in {"input", "toString"}
  /\ last' = [op |-> "tryParse", err |-> "", source |-> last.source,
              text |-> last.text, defaultDrive |-> last.defaultDrive,
              returned |-> tryParse(last.text, last.defaultDrive),
              printed |-> IF last.op = "toString" THEN last.path ELSE NoPath]
  /\ UNCHANGED <<drives, localStorage, alive, line>>

\* toString on the path tryParse returned.
PathToString ==
  /\ last.op = "tryParse"
  /\ last.printed = NoPath
  /\ last.returned # NoPath
  /\ last' = [op |-> "toString", err |-> "", source |-> last.source,
              text |-> toString(last.returned),
              defaultDrive |-> last.defaultDrive, path |-> last.returned]
  /\ UNCHANGED <<drives, localStorage, alive, line>>

SpecParse == InitParse /\ [][TryParse \/ PathToString]_vars

\* C20: for every string with a drive prefix that tryParse accepts, parsing
\* what toString prints of the parsed path gives a path equal to it: the
\* same drive, the same pieces in the same order, absolute.
C20_ParseToStringRoundTrip ==
  (/\ last.op = "tryParse"
   /\ last.printed # NoPath
   /\ IndexOf(last.source, ":", 1) > 0) =>
    /\ last.returned # NoPath
    /\ equals(last.returned, last.printed)
    /\ last.returned.drive = last.printed.drive
    /\ last.returned.pieces = last.printed.pieces
    /\ last.returned.isAbsolute
    /\ last.printed.isAbsolute
    /\ last.printed.drive = toUpperCase(SubSeq(last.source, 1, 1))

C20_Witness ==
  /\ last.op = "tryParse"
  /\ last.source = "c:./a"
  /\ last.text = "C:/a"
  /\ last.printed = FilePath("C", <<"a">>, TRUE)
  /\ last.returned = last.printed

----------------------------------------------------------------------------
(* C21, C22: the paths that tryParse, combine and parentDirectory build *)

\* Most combine and parentDirectory calls made on one parsed path.
MaxCalls == 2

\* Longest string parsed into the path the calls are made on.
MaxPathLen == 4

\* The strings whose parsed paths are handed to combine as its argument.
OtherStrings == {"", "..", "../a", "a", "./a/..", "/a", "/..", "D:/a", "c:"}

OtherPaths == {tryParse(t, Null) : t \in OtherStrings}

\* The calls made so far on the path the client holds.
Calls == IF "calls" \in DOMAIN last THEN last.calls ELSE 0

\* A client calls combine on the path the last call returned.
Combine(other) ==
  /\ last.op \in {"tryParse", "combine", "parentDirectory"}
  /\ last.returned # NoPath
  /\ Calls < MaxCalls
  /\ last' = [op |-> "combine", err |-> "", receiver |-> last.returned,
              other |-> other, returned |-> combine(last.returned, other),
              calls |-> Calls + 1]
  /\ UNCHANGED <<drives, localStorage, alive, line>>

\* A client calls parentDirectory on the path the last call returned.
ParentDirectory ==
  /\ last.op \in {"tryParse", "combine", "parentDirectory"}
  /\ last.returned # NoPath
  /\ Calls < MaxCalls
  /\ last' = [op |-> "parentDirectory", err |-> "",
              receiver |-> last.returned,
              returned |-> parentDirectory(last.returned),
              calls |-> Calls + 1]
  /\ UNCHANGED <<drives, localStorage, alive, line>>

InitPath ==
  /\ drives = NoDrives
  /\ localStorage = NullItem
  /\ alive = FALSE
  /\ line = NoLine
  /\ \E text \in PathStrings(MaxPathLen), defaultDrive \in {Null, "D"} :
       last = [op |-> "input", err |-> "", source |-> text, text |-> text,
               defaultDrive |-> defaultDrive]

NextPath ==
  \/ TryParse
  \/ \E other \in OtherPaths : Combine(other)
  \/ ParentDirectory

\* A string is parsed, and combine and parentDirectory are called on what
\* the calls return.
SpecPath == InitPath /\ [][NextPath]_vars

\* The segments of s between its separators, in order, the empty ones
\* included: from position i on, up to the next "/" or the end.
RECURSIVE Segments(_, _)
Segments(s, i) ==
  LET seps == {j \in i..Len(s) : SubSeq(s, j, j) = "/"}
  IN IF seps = {} THEN <<SubSeq(s, i, Len(s))>>
     ELSE LET j == CHOOSE k \in seps : \A m \in seps : k <= m
          IN <<SubSeq(s, i, j - 1)>> \o Segments(s, j + 1)

\* The pieces a string names: what follows its first colon, cut at the
\* separators, without the empty segments and the "." segments.
PiecesOf(s) ==
  LET colons == {j \in 1..Len(s) : SubSeq(s, j, j) = ":"}
      from == IF colons = {} THEN 1
              ELSE 1 + CHOOSE k \in colons : \A m \in colons : k <= m
  IN SelectSeq(Segments(s, from), LAMBDA p : p # "" /\ p # ".")

\* Walking a piece sequence from the root: ".." leaves the last directory
\* entered, and stays at the root when none was entered.
RECURSIVE Walk(_)
Walk(pieces) ==
  IF pieces = <<>> THEN <<>>
  ELSE LET n == Len(pieces)
           before == Walk(SubSeq(pieces, 1, n - 1))
       IN IF pieces[n] # ".." THEN Append(before, pieces[n])
          ELSE IF before = <<>> THEN <<>>
          ELSE SubSeq(before, 1, Len(before) - 1)

\* C21: every path that tryParse, combine or parentDirectory returns has no
\* empty piece and no "." piece; an absolute one has no ".." piece, its
\* pieces being those of the input walked from the root, where ".." leaves
\* the piece before it and is dropped at the root; a relative one keeps
\* every ".." of the input as a piece, in its position.
C21_PathsAreNormalized ==
  (last.op \in {"tryParse", "combine", "parentDirectory"}
   /\ last.returned # NoPath) =>
    LET p == last.returned
        given == IF last.op = "tryParse" THEN PiecesOf(last.text)
                 ELSE IF last.op = "parentDirectory"
                 THEN SubSeq(last.receiver.pieces, 1,
                             Len(last.receiver.pieces) - 1)
                 ELSE IF last.other.isAbsolute THEN p.pieces
                 ELSE last.receiver.pieces \o last.other.pieces
    IN /\ \A i \in 1..Len(p.pieces) : p.pieces[i] \notin {"", "."}
       /\ p.isAbsolute =>
            /\ \A i \in 1..Len(p.pieces) : p.pieces[i] # ".."
            /\ p.pieces = Walk(given)
       /\ ~p.isAbsolute => p.pieces = given

C21_Witness ==
  /\ last.op = "combine"
  /\ last.receiver = [drive |-> "D", pieces |-> <<"a">>, isAbsolute |-> TRUE]
  /\ last.other =
       [drive |-> Null, pieces |-> <<"..", "a">>, isAbsolute |-> FALSE]
  /\ last.returned = last.receiver
  /\ last.calls = 2

\* C22: a.combine(b) returns a path equal to b when b is absolute; when b
\* is relative it returns a path with the drive and the absoluteness of a
\* whose pieces are the pieces of a followed by those of b, normalized.
C22_CombineReturnsOtherOrJoins ==
  (last.op = "combine") =>
    IF last.other.isAbsolute
    THEN /\ equals(last.returned, last.other)
         /\ last.returned.isAbsolute
    ELSE /\ last.returned.drive = last.receiver.drive
         /\ last.returned.isAbsolute = last.receiver.isAbsolute
         /\ last.returned.pieces =
              IF last.receiver.isAbsolute
              THEN Walk(last.receiver.pieces \o last.other.pieces)
              ELSE last.receiver.pieces \o last.other.pieces

----------------------------------------------------------------------------
(* C23 *)

\* The calls that are not commit() and reach the stored array or the trees.
FrameOps ==
  {"ejectFloppy", "insertFloppy", "spawnFloppy", "burnFloppy",
   "createDirectory", "removeDirectory"}

\* C23: a call of ejectFloppy, insertFloppy, spawnFloppy, burnFloppy,
\* createDirectory or removeDirectory, failing or not, leaves the data of
\* every record that stays in the array as it was: the calls other than
\* spawnFloppy and burnFloppy keep the names and the data of the array in
\* place, spawnFloppy keeps them and adds at most one record at the end,
\* burnFloppy only removes records; so the record of a floppy that was
\* ejected holds the data it held before the call, whatever its tree was.
C23_OnlyCommitChangesData ==
  [][(last'.op \in FrameOps) =>
       LET old == LoadFloppies(localStorage)
           new == LoadFloppies(localStorage')
       IN /\ \A j \in 1..Len(new) : \A i \in Named(old, new[j].name) :
                new[j].data = old[i].data
          /\ (last'.op # "burnFloppy") =>
               /\ Len(new) >= Len(old)
               /\ \A i \in 1..Len(old) :
                    new[i].name = old[i].name /\ new[i].data = old[i].data
          /\ (last'.op \notin {"burnFloppy", "spawnFloppy"}) =>
               Len(new) = Len(old)
          /\ (last'.op = "spawnFloppy") => Len(new) <= Len(old) + 1
          /\ (last'.op = "burnFloppy") =>
               /\ Len(new) <= Len(old)
               /\ \A i \in 1..Len(old) :
                    Named(new, old[i].name) = {} =>
                      /\ last'.floppy # NoInfo
                      /\ last'.floppy.name = old[i].name
          /\ (last'.op = "ejectFloppy" /\ "floppy" \in DOMAIN last') =>
               \A j \in Named(new, last'.floppy.name) :
                 new[j].data = last'.floppy.data]_vars

C23_Witness ==
  /\ last.op = "ejectFloppy"
  /\ last.err = ""
  /\ "floppy" \in DOMAIN last
  /\ last.rootEntry.entries # <<>>
  /\ \A i \in Named(Floppies, last.floppy.name) :
       /\ Floppies[i].data = EmptyFloppyData
       /\ ~DataDescribes(Floppies[i].data, last.rootEntry)
  /\ Named(Floppies, last.floppy.name) # {}

----------------------------------------------------------------------------
(* C24 *)

\* A text file that has the name of the second directory of PieceChain.
TextSub == [type |-> TypeTextFile, name |-> "sub", data |-> TextFile("")]

NextCreate ==
  \/ SpawnFloppy(NameWork)
  \/ InsertFloppy("D", NameWork)
  \/ \E path \in DirPaths({"D"}) : CreateDirectory(path)
  \/ \E dirPath \in ItemDirs, info \in {TextDocs, TextSub} :
       AddItem(dirPath, info)

\* createDirectory on the trees of one floppy that hold text files where
\* the paths expect directories, at the root and one level down.
SpecCreate == Init /\ [][NextCreate]_vars

\* C24: when a prefix of path, of one piece or more, resolves to an entry
\* that is no directory, createDirectory(path) fails with the error of a
\* path that is no directory and every tree is what it was before the
\* call: no directory was created.
C24_CreateDirectoryFailsWhole ==
  [][\A path \in DirPaths({"D"}) :
       (/\ last'.op = "createDirectory"
        /\ \E k \in 1..Len(path.pieces) :
             LET entry == Resolve(drives, Prefix(path, k))
             IN entry # NoInfo /\ entry.type # TypeDirectory
        /\ CreateDirectory(path)) =>
         /\ last'.err = "is not a directory"
         /\ drives' = drives]_vars

C24_Witness ==
  /\ last.op = "createDirectory"
  /\ last.err = "is not a directory"
  /\ HoldsFloppy(drives, "D")
  /\ IsDirectory(Resolve(drives, FilePath("D", <<"docs">>, TRUE)))
  /\ Resolve(drives, FilePath("D", <<"docs", "sub">>, TRUE)) = TextSub
  /\ Resolve(drives, FilePath("D", <<"docs">>, TRUE)).entries = <<TextSub>>

----------------------------------------------------------------------------
(* C25 *)

NextTransient ==
  Lifecycle \/ \E path \in DirPaths({"C"}) : CreateDirectory(path)

\* The lifecycle calls on every label, C included, while a client builds
\* directories on the transient drive.
SpecTransient == Init /\ [][NextTransient]_vars

LifecycleOps ==
  {"spawnFloppy", "insertFloppy", "ejectFloppy", "burnFloppy", "commit"}

\* C25: in every state that spawnFloppy, insertFloppy, ejectFloppy,
\* burnFloppy and commit calls reach from a manager over an empty store,
\* label C holds a transient drive and no stored record has drive = C; and
\* each of those calls, failing or not, leaves the drive at C and its tree
\* as they were.
C25_TransientDriveStays ==
  /\ [](/\ "C" \in DOMAIN drives
        /\ drives["C"].type = KindTransient
        /\ Claiming(Floppies, "C") = {})
  /\ [][(last'.op \in LifecycleOps) =>
          /\ "C" \in DOMAIN drives'
          /\ drives'["C"] = drives["C"]]_vars

C25_Witness ==
  /\ last.op = "ejectFloppy"
  /\ last.err = "No floppy mounted to that drive"
  /\ DOMAIN drives = {"C"}
  /\ drives["C"].rootEntry.entries # <<>>
  /\ Len(Floppies) = 2

----------------------------------------------------------------------------
(* readLine (src/unnamed/part_000): the closure of one call, the key      *)
(* events its listener onType receives and the promise it resolves. What  *)
(* the call prints and where it moves the cursor of the TextBuffer is not *)
(* part of the closure and is left out. The listener is removed by the    *)
(* finally of the promise, in the microtask that follows the resolution:  *)
(* no key event reaches onType after the promise is settled.              *)

\* Longest line that typed characters build.
MaxLine == 2

\* char of a key that prints nothing (null), and the characters "\n" of
\* Enter and "\b" of Backspace.
NoChar == Null
CharEnter == "\n"
CharBackspace == "\\b"

Pending == [state |-> "pending"]
Fulfilled(isNull, value) ==
  [state |-> "fulfilled", isNull |-> isNull, value |-> value]

\* resolve(value) of the promise: a settled promise keeps its value.
resolve(st, isNull, value) ==
  IF st.promise = Pending
  THEN [st EXCEPT !.promise = Fulfilled(isNull, value)]
  ELSE st

\* s.split(" ") and its last element: what follows the last space of s.
RECURSIVE LastToken(_)
LastToken(s) ==
  IF Len(s) = 0 THEN ""
  ELSE IF SubSeq(s, Len(s), Len(s)) = " " THEN ""
  ELSE LastToken(SubSeq(s, 1, Len(s) - 1)) \o SubSeq(s, Len(s), Len(s))

\* s.startsWith(token)
startsWith(s, token) ==
  Len(s) >= Len(token) /\ SubSeq(s, 1, Len(token)) = token

\* The Tab branch of onType.
onTab(st) ==
  LET st1 == [st EXCEPT !.isUsingPreviousEntry = FALSE]
      token == LastToken(st.result)
      matchingAutoCompleteStrings ==
        SelectSeq(st.autoCompleteStrings, LAMBDA t : startsWith(t, token))
  IN IF Len(token) = 0 THEN st1
     ELSE IF Len(matchingAutoCompleteStrings) # 1 THEN st1
     ELSE LET autoCompleteString == matchingAutoCompleteStrings[1]
              prefix == SubSeq(autoCompleteString, 1, Len(token))
              completed == SubSeq(st.result, 1,
                                  Len(st.result) - Len(token))
                           \o autoCompleteString
          IN IF prefix = token
             THEN [st1 EXCEPT !.result = completed,
                              !.curIndex = Len(completed)]
             ELSE st1

onHome(st) == [st EXCEPT !.curIndex = 0]

onEnd(st) == [st EXCEPT !.curIndex = Len(st.result)]

onEnter(st) == resolve(st, FALSE, st.result)

onBackspace(st) ==
  IF st.curIndex > 0
  THEN LET stringStart == SubSeq(st.result, 1, st.curIndex - 1)
           stringEnd == SubSeq(st.result, st.curIndex + 1, Len(st.result))
       IN [st EXCEPT !.isUsingPreviousEntry = FALSE,
                     !.result = stringStart \o stringEnd,
                     !.curIndex = st.curIndex - 1]
  ELSE st

onDelete(st) ==
  IF st.curIndex < Len(st.result)
  THEN LET stringStart == SubSeq(st.result, 1, st.curIndex)
           stringEnd == SubSeq(st.result, st.curIndex + 2, Len(st.result))
       IN [st EXCEPT !.isUsingPreviousEntry = FALSE,
                     !.result = stringStart \o stringEnd]
  ELSE st

onArrowLeft(st) ==
  IF st.curIndex > 0 THEN [st EXCEPT !.curIndex = st.curIndex - 1] ELSE st

onArrowRight(st) ==
  IF st.curIndex < Len(st.result)
  THEN [st EXCEPT !.curIndex = st.curIndex + 1]
  ELSE st

\* previousEntryIndex counts from 0, as in the source.
onArrowUp(st) ==
  IF Len(st.previousEntries) = 0 THEN st
  ELSE LET st1 ==
             IF ~st.isUsingPreviousEntry
             THEN [st EXCEPT !.isUsingPreviousEntry = TRUE,
                             !.savedResult = st.result,
                             !.previousEntryIndex =
                                Len(st.previousEntries) - 1]
             ELSE IF st.previousEntryIndex > 0
             THEN [st EXCEPT !.previousEntryIndex = @ - 1]
             ELSE st
           replaceWith ==
             IF ~st.isUsingPreviousEntry \/ st.previousEntryIndex > 0
             THEN st.previousEntries[st1.previousEntryIndex + 1]
             ELSE ""
       IN IF replaceWith # ""
          THEN [st1 EXCEPT !.result = replaceWith,
                           !.curIndex = Len(replaceWith)]
          ELSE st1

\* The ArrowDown branch that puts the entry on the line and leaves the edit
\* position where it was.
onArrowDownKeepsIndex(st) ==
  IF st.isUsingPreviousEntry
     /\ st.previousEntryIndex < Len(st.previousEntries)
  THEN LET index == st.previousEntryIndex + 1
           replaceWith == IF index < Len(st.previousEntries)
                          THEN st.previousEntries[index + 1]
                          ELSE st.savedResult
       IN [st EXCEPT !.previousEntryIndex = index,
                     !.result = replaceWith]
  ELSE st

onArrowDown(st) ==
  IF st.isUsingPreviousEntry
     /\ st.previousEntryIndex < Len(st.previousEntries)
  THEN LET index == st.previousEntryIndex + 1
           replaceWith == IF index < Len(st.previousEntries)
                          THEN st.previousEntries[index + 1]
                          ELSE st.savedResult
       IN [st EXCEPT !.previousEntryIndex = index,
                     !.result = replaceWith,
                     !.curIndex = Len(replaceWith)]
  ELSE st

\* The last branch of onType: a character is typed at the edit position.
onChar(st, char) ==
  LET rest == char \o SubSeq(st.result, st.curIndex + 1, Len(st.result))
  IN [st EXCEPT !.isUsingPreviousEntry = FALSE,
                !.result = SubSeq(st.result, 1, st.curIndex) \o rest,
                !.curIndex = st.curIndex + 1]

\* The branch of onType that a key event takes.
Branch(st, char, key, isControlDown) ==
  IF isControlDown THEN (IF key = "KeyC" THEN "cancel" ELSE "none")
  ELSE IF key = "Tab" /\ Len(st.autoCompleteStrings) > 0
          /\ st.curIndex = Len(st.result) THEN "Tab"
  ELSE IF key = "Home" THEN "Home"
  ELSE IF key = "End" THEN "End"
  ELSE IF char = CharEnter THEN "Enter"
  ELSE IF char = CharBackspace THEN "Backspace"
  ELSE IF key = "Delete" THEN "Delete"
  ELSE IF key = "ArrowLeft" THEN "ArrowLeft"
  ELSE IF key = "ArrowRight" THEN "ArrowRight"
  ELSE IF key = "ArrowUp" THEN "ArrowUp"
  ELSE IF key = "ArrowDown" THEN "ArrowDown"
  ELSE IF char # NoChar /\ char # "" THEN "char"
  ELSE "none"

\* onType(char, key, ev) on the closure st
onType(st, char, key, isControlDown) ==
  LET branch == Branch(st, char, key, isControlDown)
  IN CASE branch = "cancel" -> resolve(st, TRUE, "")
       [] branch = "Tab" -> onTab(st)
       [] branch = "Home" -> onHome(st)
       [] branch = "End" -> onEnd(st)
       [] branch = "Enter" -> onEnter(st)
       [] branch = "Backspace" -> onBackspace(st)
       [] branch = "Delete" -> onDelete(st)
       [] branch = "ArrowLeft" -> onArrowLeft(st)
       [] branch = "ArrowRight" -> onArrowRight(st)
       [] branch = "ArrowUp" -> onArrowUp(st)
       [] branch = "ArrowDown" -> onArrowDown(st)
       [] branch = "char" -> onChar(st, char)
       [] OTHER -> st

\* The options a program hands to readLine: no completion, one, or two that
\* share a prefix; no history, or a history that may hold an empty entry.
ReadLineOptions ==
  {[autoCompleteStrings |-> <<>>, previousEntries |-> <<>>],
   [autoCompleteStrings |-> <<"ab">>, previousEntries |-> <<"b">>],
   [autoCompleteStrings |-> <<"ab", "aa">>, previousEntries |-> <<"", "ab">>],
   [autoCompleteStrings |-> <<"ab">>, previousEntries |-> <<"a", "">>]}

\* The key events the Keyboard delivers: two printing keys, the editing
\* keys, Tab, and keys pressed with Control held.
KeyEvents ==
  {[char |-> "a", key |-> "KeyA", isControlDown |-> FALSE],
   [char |-> " ", key |-> "Space", isControlDown |-> FALSE],
   [char |-> CharEnter, key |-> "Enter", isControlDown |-> FALSE],
   [char |-> CharBackspace, key |-> "Backspace", isControlDown |-> FALSE],
   [char |-> NoChar, key |-> "Tab", isControlDown |-> FALSE],
   [char |-> "c", key |-> "KeyC", isControlDown |-> TRUE],
   [char |-> CharEnter, key |-> "Enter", isControlDown |-> TRUE]}
  \cup {[char |-> NoChar, key |-> k, isControlDown |-> FALSE] :
          k \in {"Home", "End", "Delete", "ArrowLeft", "ArrowRight",
                 "ArrowUp", "ArrowDown"}}

\* readLine is called: lines 20-23 and 35-36 of the source.
InitReadLine ==
  /\ drives = NoDrives
  /\ localStorage = NullItem
  /\ alive = FALSE
  /\ last = [op |-> "readLine", err |-> ""]
  /\ \E options \in ReadLineOptions :
       line = [autoCompleteStrings |-> options.autoCompleteStrings,
               previousEntries |-> options.previousEntries,
               isUsingPreviousEntry |-> FALSE,
               previousEntryIndex |-> 0,
               savedResult |-> "",
               result |-> "",
               curIndex |-> 0,
               promise |-> Pending]

\* The Keyboard calls the listener with a key event.
Type(ev) ==
  LET branch == Branch(line, ev.char, ev.key, ev.isControlDown)
  IN /\ line # NoLine
     /\ line.promise = Pending
     /\ branch = "char" => Len(line.result) < MaxLine
     /\ line' = onType(line, ev.char, ev.key, ev.isControlDown)
     /\ last' = [op |-> "onType", err |-> ""]
     /\ UNCHANGED <<drives, localStorage, alive>>

SpecReadLine == InitReadLine /\ [][\E ev \in KeyEvents : Type(ev)]_vars

\* C26: in every state of a readLine call the edit position lies between 0
\* and the length of the line text; a key event with the character of
\* Enter, Control not held, that the Tab, Home and End tests let through,
\* resolves the promise with the line text as it stands, and Control+C
\* resolves it with null.
C26_ReadLineKeepsIndexInLine ==
  /\ [](line # NoLine =>
          /\ line.curIndex >= 0
          /\ line.curIndex <= Len(line.result))
  /\ [][\A ev \in KeyEvents :
          Type(ev) =>
            /\ (ev.char = CharEnter /\ ~ev.isControlDown
                /\ ev.key \notin {"Tab", "Home", "End"}) =>
                 /\ line'.promise = Fulfilled(FALSE, line.result)
                 /\ line'.result = line.result
            /\ (ev.key = "KeyC" /\ ev.isControlDown) =>
                 line'.promise = Fulfilled(TRUE, "")]_vars

C26_Witness ==
  /\ line # NoLine
  /\ last.op = "onType"
  /\ line.autoCompleteStrings = <<"ab">>
  /\ line.previousEntries = <<"b">>
  /\ line.promise = Fulfilled(FALSE, "ab")
  /\ line.result = "ab"
  /\ line.curIndex = 2
  /\ line.isUsingPreviousEntry = FALSE
  /\ line.savedResult = "a"

====
